---- MODULE Spec2Model ----
(***************************************************************************)
(* VoteLedger: the hash-linked vote ledger (class Blockchain / Block of    *)
(* app.py, app2.py and prototype.py), the Flask handlers of app.py that    *)
(* drive it, the thread interleavings of those handlers, and the buttons   *)
(* of the Streamlit session of app2.py.                                    *)
(*                                                                         *)
(* Python objects are modelled with their reference semantics: a list is   *)
(* an entry of `heap`, and pending_transactions and Block.transactions     *)
(* hold references (indices into heap), because mine() hands the pending   *)
(* list itself, not a copy, to the new Block.                              *)
(*                                                                         *)
(* Strings produced by sha256(...).hexdigest() are modelled as the         *)
(* sequence of integers that was hashed (a collision-free digest); the     *)
(* literal "0" is the one-element sequence <<0>>.                          *)
(***************************************************************************)
EXTENDS Integers, Sequences, FiniteSets, TLC

\* ---- bounds of the model ------------------------------------------------
NumVoters == 2
NumCandidates == 2
MaxTime == 1
NumThreads == 2
MaxRequests == 3
MaxRows == 4

\* ---- input domains ------------------------------------------------------
None == 0
VoterIds == 1..NumVoters
Candidates == 1..NumCandidates
Emails == 1..NumVoters
Names == {1}
Domains == {1}
Threads == 1..NumThreads

VARIABLES
    chain,                  \* Blockchain.chain: sequence of Block records
    heap,                   \* the list objects; heap[r] is the content of list r
    pending_transactions,   \* Blockchain.pending_transactions: a reference into heap
    voters,                 \* Blockchain.voters
    candidate_list,         \* global candidate_list
    qr_vote_counts,         \* global qr_vote_counts
    qr_voters,              \* st.session_state.qr_voters of app2
    registered_voters,      \* global registered_voters, in insertion order
    votes_table,            \* global votes_table
    now,                    \* the value time.time() last returned
    ret,                    \* the last completed call and what it returned
    pc,                     \* per thread: position in the handler it runs
    loc,                    \* per thread: the local variables of the handler
    hist,                   \* the transactions appended to a pending list so far,
                            \* each with the number of times it was appended
    requests,               \* the number of requests the threaded server has taken
    seal_overlap            \* whether two mine() calls have ever been in progress at once

vars == <<chain, heap, pending_transactions, voters, candidate_list,
          qr_vote_counts, qr_voters, registered_voters, votes_table, now, ret,
          pc, loc,
          hist, requests, seal_overlap>>

ledgerVars == <<chain, heap, pending_transactions, voters>>
appVars == <<candidate_list, qr_vote_counts, qr_voters, registered_voters, votes_table>>
threadVars == <<pc, loc, requests, seal_overlap>>

\* ---- helpers ------------------------------------------------------------
RECURSIVE Concat(_)
Concat(ss) == IF ss = <<>> THEN <<>> ELSE Head(ss) \o Concat(Tail(ss))

Range(s) == {s[i] : i \in 1..Len(s)}

Occurrences(s, x) == Cardinality({i \in 1..Len(s) : s[i] = x})

\* a bag of transactions: a function from the transactions in it to their counts
EmptyBag == [x \in {} |-> 0]

BagAdd(b, x) ==
    [y \in DOMAIN b \cup {x} |->
        IF y = x THEN (IF x \in DOMAIN b THEN b[x] + 1 ELSE 1) ELSE b[y]]

\* time.time(): the clock does not run backwards
TimesFrom(t0) == {t \in t0..(t0 + 1) : t <= MaxTime}

Times == TimesFrom(now)

\* ---- hashing ------------------------------------------------------------
\* The text of a voter id or of a candidate name as an f-string renders it.
\* Both are free text typed into a form; the n-th of the model is n times
\* the letter 1, and a missing field renders as the word None (the token 2).
\* The id of a QR voter (100 and above) renders as the token 3, for the
\* prefix qr_voter_, and a token of its own for the md5 digest.
IdText(n) ==
    IF n = None THEN <<2>>
    ELSE IF n >= 100 THEN <<3, n>>
    ELSE [i \in 1..n |-> 1]

\* The text of a clock reading: one token per reading, no letter of an id
TimeText(timestamp) == <<10 + timestamp>>

\* hashlib.sha256(f"{voter_id}{candidate}{timestamp}".encode()).hexdigest()[:10]:
\* the three texts are joined with nothing between them
generate_receipt_id(voter_id, candidate, timestamp) ==
    IdText(voter_id) \o IdText(candidate) \o TimeText(timestamp)

\* json.dumps of one transaction dict, keys sorted
tx_string(tx) ==
    <<tx.candidate, Len(tx.receipt_id)>> \o tx.receipt_id
        \o <<tx.timestamp, tx.voter_id>>

txs_string(txs) ==
    <<Len(txs)>> \o Concat([i \in 1..Len(txs) |-> tx_string(txs[i])])

\* json.dumps(self.__dict__, sort_keys=True, default=str): the keys are
\* hash (only once the attribute is set), index, nonce, previous_hash,
\* timestamp, transactions.  hashAttr is <<>> while self.hash is not set.
block_string(hashAttr, index, nonce, previous_hash, timestamp, txs) ==
    (IF hashAttr = <<>> THEN <<5>> ELSE <<6, Len(hashAttr)>> \o hashAttr)
        \o <<index, nonce, Len(previous_hash)>> \o previous_hash
        \o <<timestamp>> \o txs_string(txs)

compute_hash(hashAttr, index, nonce, previous_hash, timestamp, txs) ==
    block_string(hashAttr, index, nonce, previous_hash, timestamp, txs)

\* Block.__init__: txref is the list the block keeps, txs its content when
\* the constructor runs
Block(index, txref, txs, timestamp, previous_hash) ==
    [index |-> index,
     transactions |-> txref,
     timestamp |-> timestamp,
     previous_hash |-> previous_hash,
     nonce |-> 0,
     hash |-> compute_hash(<<>>, index, 0, previous_hash, timestamp, txs)]

Sentinel == <<0>>

\* ---- reads of the ledger ------------------------------------------------
\* get_all_transactions as it would be if it walked the chain from its end
AllTransactionsOf_backwards(ch, hp) ==
    Concat([i \in 1..(Len(ch) - 1) |-> hp[ch[Len(ch) + 1 - i].transactions]])

\* Blockchain.get_all_transactions over a given chain and heap
AllTransactionsOf(ch, hp) ==
    Concat([i \in 1..(Len(ch) - 1) |-> hp[ch[i + 1].transactions]])

get_all_transactions == AllTransactionsOf(chain, heap)

\* get_results as it would be if it counted the pending list as well
get_results_with_pending ==
    LET txs == get_all_transactions \o heap[pending_transactions]
    IN  [c \in {txs[i].candidate : i \in 1..Len(txs)} |->
            Cardinality({i \in 1..Len(txs) : txs[i].candidate = c})]

\* Blockchain.get_results
get_results ==
    LET txs == get_all_transactions
    IN  [c \in {txs[i].candidate : i \in 1..Len(txs)} |->
            Cardinality({i \in 1..Len(txs) : txs[i].candidate = c})]

Pending == heap[pending_transactions]

\* a count read from a defaultdict(int), or with .get(c, 0)
CountOf(results, c) == IF c \in DOMAIN results THEN results[c] ELSE 0

\* ---- text ---------------------------------------------------------------
\* A str is the sequence of its characters.
\* the capital letters the texts of the model use, and their small letters
ToLower ==
    ("A" :> "a") @@ ("B" :> "b") @@ ("C" :> "c") @@ ("D" :> "d") @@ ("E" :> "e")
        @@ ("J" :> "j") @@ ("M" :> "m") @@ ("O" :> "o") @@ ("P" :> "p")
        @@ ("S" :> "s")

\* str.lower()
lower(text) ==
    [i \in 1..Len(text) |->
        IF text[i] \in DOMAIN ToLower THEN ToLower[text[i]] ELSE text[i]]

\* text.endswith(suffix)
endswith(text, suffix) ==
    /\ Len(suffix) <= Len(text)
    /\ SubSeq(text, Len(text) - Len(suffix) + 1, Len(text)) = suffix

\* sub in text
contains(text, sub) ==
    \E i \in 1..(Len(text) - Len(sub) + 1) : SubSeq(text, i, i + Len(sub) - 1) = sub

\* len(text.split()): the runs of characters that are not blanks
split_len(text) ==
    Cardinality({i \in 1..Len(text) :
                    text[i] # " " /\ (i = 1 \/ text[i - 1] = " ")})

\* The texts the forms are filled with.  A name, a domain and an email of
\* the model is a number; these are the strings the numbers stand for.
NameText(name) ==
    CASE name = 1 -> <<"J", "a", "n", "e", " ", "D", "o", "e">>
      [] name = 2 -> <<"A", "l">>
      [] name = 3 -> <<"A", "l", "i", "c", "e">>
      [] name = 4 -> <<"J", "o", " ", "D">>

DomainText(domain) ==
    CASE domain = 1 -> <<"a", "c", "m", "e", ".", "o", "r", "g">>
      [] domain = 2 -> <<"S", "p", "a", "m", ".", "C", "o", "m">>

\* email n is the n-th mailbox at acme.org, email 100 + n the n-th mailbox
\* at Spam.com
EmailText(email) ==
    IF email < 100
    THEN [i \in 1..email |-> "v"] \o <<"@">> \o DomainText(1)
    ELSE [i \in 1..(email - 100) |-> "v"] \o <<"@">> \o DomainText(2)

\* suspicious_domains of app.py (line 270) and of prototype.py (line 196)
suspicious_domains ==
    {<<"s", "p", "a", "m", ".", "c", "o", "m">>,
     <<"f", "a", "k", "e", ".", "c", "o", "m">>,
     <<"t", "e", "s", "t", ".", "c", "o", "m">>}

\* suspicious_domains of app2.py (line 506)
suspicious_domains2 ==
    suspicious_domains
        \cup {<<"e", "x", "a", "m", "p", "l", "e", ".", "c", "o", "m">>,
              <<"m", "a", "i", "l", "i", "n", "a", "t", "o", "r", ".", "c", "o", "m">>}

\* ---- the last call ------------------------------------------------------
\* the arguments are kept for a call that succeeded
NoRet == [op |-> "none", ok |-> FALSE, voter_id |-> None, candidate |-> None,
          receipt_id |-> <<>>, vote_message |-> "", check_result |-> "",
          flagged |-> {}, flagged_df |-> <<>>]

Ret(op, ok, v, c, r) ==
    [op |-> op, ok |-> ok, voter_id |-> v,
     candidate |-> IF ok THEN c ELSE None,
     receipt_id |-> IF ok THEN r ELSE <<>>,
     vote_message |-> "", check_result |-> "",
     flagged |-> {}, flagged_df |-> <<>>]

\* the locals of a handler that is not running
NoLoc == [voter_id |-> None, candidate |-> None, receipt_id |-> <<>>,
          tx |-> <<>>, ref |-> 0, last_hash |-> <<>>, index |-> 0,
          timestamp |-> 0, new_block |-> <<>>, form |-> <<>>]

\* ---- construction -------------------------------------------------------
\* Blockchain.__init__ and create_genesis_block: list 1 is the pending list,
\* list 2 the genesis block's own empty list
InitLedger ==
    /\ heap = << <<>>, <<>> >>
    /\ pending_transactions = 1
    /\ voters = {}
    /\ chain = << Block(0, 2, <<>>, 0, Sentinel) >>
    /\ now = 0

InitApp ==
    /\ candidate_list = <<>>
    /\ qr_vote_counts = [c \in {} |-> 0]
    /\ qr_voters = {}
    /\ registered_voters = <<>>
    /\ votes_table = <<>>

InitThreads ==
    /\ pc = [t \in Threads |-> "idle"]
    /\ loc = [t \in Threads |-> NoLoc]
    /\ requests = 0
    /\ seal_overlap = FALSE

Init ==
    /\ InitLedger
    /\ InitApp
    /\ InitThreads
    /\ ret = NoRet
    /\ hist = EmptyBag

\* ---- Blockchain.add_transaction ----------------------------------------
Transaction(voter_id, candidate, receipt_id, timestamp) ==
    [voter_id |-> voter_id, candidate |-> candidate,
     receipt_id |-> receipt_id, timestamp |-> timestamp]

\* add_transaction as it would be if it looked for the voter in the pending
\* list instead of in self.voters
add_transaction_effect_pending_only(voter_id, candidate, receipt_id, t) ==
    IF \E i \in 1..Len(heap[pending_transactions]) :
           heap[pending_transactions][i].voter_id = voter_id
    THEN /\ UNCHANGED <<heap, voters, hist>>
    ELSE /\ heap' = [heap EXCEPT ![pending_transactions] =
                        Append(@, Transaction(voter_id, candidate, receipt_id, t))]
         /\ voters' = voters \cup {voter_id}
         /\ hist' = BagAdd(hist, Transaction(voter_id, candidate, receipt_id, t))

\* add_transaction as it would be if it left the marking of the voter to mine
add_transaction_effect_unmarked(voter_id, candidate, receipt_id, t) ==
    IF voter_id \in voters
    THEN /\ UNCHANGED <<heap, voters, hist>>
    ELSE /\ heap' = [heap EXCEPT ![pending_transactions] =
                        Append(@, Transaction(voter_id, candidate, receipt_id, t))]
         /\ voters' = voters
         /\ hist' = BagAdd(hist, Transaction(voter_id, candidate, receipt_id, t))

\* the state change of add_transaction; t is what time.time() returns
add_transaction_effect(voter_id, candidate, receipt_id, t) ==
    IF voter_id \in voters
    THEN /\ UNCHANGED <<heap, voters, hist>>
    ELSE /\ heap' = [heap EXCEPT ![pending_transactions] =
                        Append(@, Transaction(voter_id, candidate, receipt_id, t))]
         /\ voters' = voters \cup {voter_id}
         /\ hist' = BagAdd(hist, Transaction(voter_id, candidate, receipt_id, t))

add_transaction_result(voter_id) == voter_id \notin voters

add_transaction(voter_id, candidate, receipt_id) ==
    \E t \in (IF voter_id \in voters THEN {now} ELSE Times) :
        /\ add_transaction_effect(voter_id, candidate, receipt_id, t)
        /\ now' = (IF voter_id \in voters THEN now ELSE t)
        /\ ret' = Ret("add_transaction", add_transaction_result(voter_id),
                      voter_id, candidate, receipt_id)
        /\ UNCHANGED <<chain, pending_transactions>>

\* ---- Blockchain.mine ----------------------------------------------------
\* mine as it would be if it numbered the new block after the last block
mine_block_stale_index(t) ==
    Block(chain[Len(chain)].index, pending_transactions, heap[pending_transactions],
          t, chain[Len(chain)].hash)

\* mine as it would be if it gave every block the previous_hash of genesis
mine_block_unlinked(t) ==
    Block(Len(chain), pending_transactions, heap[pending_transactions], t, <<0>>)

\* the new block of mine(); t is what time.time() returns
mine_block(t) ==
    Block(Len(chain), pending_transactions, Pending, t, chain[Len(chain)].hash)

\* mine as it would be without the test of line 67
mine_effect_unguarded(t) ==
    /\ chain' = Append(chain, Block(Len(chain), pending_transactions,
                                    heap[pending_transactions], t,
                                    chain[Len(chain)].hash))
    /\ heap' = Append(heap, <<>>)
    /\ pending_transactions' = Len(heap) + 1

\* mine as it would be if it left the pending list bound to the list it
\* gave to the new block
mine_effect_aliasing(t) ==
    IF Pending = <<>>
    THEN UNCHANGED <<chain, heap, pending_transactions>>
    ELSE /\ chain' = Append(chain, mine_block(t))
         /\ UNCHANGED <<heap, pending_transactions>>

\* mine as it would be if the new block took only the oldest pending
\* transaction
mine_effect_first_only(t) ==
    IF Pending = <<>>
    THEN UNCHANGED <<chain, heap, pending_transactions>>
    ELSE /\ chain' = Append(chain, Block(Len(chain), Len(heap) + 1, <<Head(Pending)>>,
                                         t, chain[Len(chain)].hash))
         /\ heap' = heap \o << <<Head(Pending)>>, <<>> >>
         /\ pending_transactions' = Len(heap) + 2

mine_effect(t) ==
    IF Pending = <<>>
    THEN UNCHANGED <<chain, heap, pending_transactions>>
    ELSE /\ chain' = Append(chain, mine_block(t))
         /\ heap' = Append(heap, <<>>)
         /\ pending_transactions' = Len(heap) + 1

mine_result == Pending # <<>>

mine ==
    /\ \E t \in (IF Pending = <<>> THEN {now} ELSE Times) : mine_effect(t) /\ now' = t
    /\ ret' = Ret("mine", mine_result, None, None, <<>>)
    /\ UNCHANGED <<voters, hist>>

\* ---- the ledger on its own: any caller, any arguments ------------------
call_add_transaction ==
    /\ \E v \in VoterIds, c \in Candidates, tr \in 0..now :
          \* a refused call keeps nothing of candidate and receipt_id: one
          \* pair of them stands for all
          /\ v \in voters => (c = 1 /\ tr = 0)
          /\ add_transaction(v, c, generate_receipt_id(v, c, tr))
    /\ UNCHANGED <<appVars, threadVars>>

call_mine ==
    /\ mine
    /\ UNCHANGED <<appVars, threadVars>>

\* get_all_transactions builds a list of its own and returns it
call_get_all_transactions ==
    /\ ret' = Ret("get_all_transactions", TRUE, None, None, <<>>)
    /\ UNCHANGED <<ledgerVars, appVars, threadVars, now, hist>>

\* get_results builds a dict of its own from get_all_transactions
call_get_results ==
    /\ ret' = Ret("get_results", TRUE, None, None, <<>>)
    /\ UNCHANGED <<ledgerVars, appVars, threadVars, now, hist>>

NextLedger ==
    \/ call_add_transaction
    \/ call_mine
    \/ call_get_all_transactions
    \/ call_get_results

SpecLedger == Init /\ [][NextLedger]_vars

\* ---- app.py: voter_panel, tab 'registration' ----------------------------
RegisteredIds(reg) == {reg[i].voter_id : i \in 1..Len(reg)}

VoterInfo(reg, voter_id) ==
    reg[CHOOSE i \in 1..Len(reg) : reg[i].voter_id = voter_id]

\* the registration branch: the registry after it
registration_effect(voter_id, name, email, domain) ==
    IF voter_id = None \/ name = None \/ email = None \/ domain = None
    THEN registered_voters
    ELSE IF voter_id \in RegisteredIds(registered_voters)
    THEN registered_voters
    ELSE IF \E i \in 1..Len(registered_voters) : registered_voters[i].email = email
    THEN registered_voters
    ELSE Append(registered_voters,
                [voter_id |-> voter_id, name |-> name, email |-> email,
                 domain |-> domain])

registration_message(voter_id, name, email, domain) ==
    IF voter_id = None \/ name = None \/ email = None \/ domain = None
    THEN "All fields are required."
    ELSE IF voter_id \in RegisteredIds(registered_voters)
    THEN "Voter ID already registered."
    ELSE IF \E i \in 1..Len(registered_voters) : registered_voters[i].email = email
    THEN "This email is already registered."
    ELSE "Registration successful!"

VoteRow(info, voter_id, candidate, receipt_id, timestamp) ==
    [voter_id |-> voter_id, name |-> info.name, email |-> info.email,
     domain |-> info.domain, candidate |-> candidate, receipt |-> receipt_id,
     timestamp |-> timestamp]

\* the 'Vote Casting' branch as it would be if it neither looked at
\* blockchain.voters itself nor at what add_transaction returned before
\* writing the row
vote_casting_unchecked(reg, voter_id_vote, candidate_vote) ==
    IF voter_id_vote \notin RegisteredIds(reg)
    THEN /\ ret' = [Ret("voter_panel", FALSE, voter_id_vote, candidate_vote, <<>>)
                       EXCEPT !.vote_message = "You must register before voting."]
         /\ UNCHANGED <<ledgerVars, votes_table, now, hist>>
    ELSE \E tr \in TimesFrom(now) :
         \E tt \in TimesFrom(tr) :
         \E ts \in TimesFrom(tt) :
         LET receipt_id == generate_receipt_id(voter_id_vote, candidate_vote, tr)
             success == voter_id_vote \notin voters
         IN  /\ IF success
                THEN /\ heap' = [heap EXCEPT ![pending_transactions] =
                                    Append(@, Transaction(voter_id_vote, candidate_vote,
                                                          receipt_id, tt))]
                     /\ voters' = voters \cup {voter_id_vote}
                     /\ hist' = BagAdd(hist, Transaction(voter_id_vote, candidate_vote,
                                                         receipt_id, tt))
                ELSE UNCHANGED <<heap, voters, hist>>
             /\ UNCHANGED <<chain, pending_transactions>>
             /\ votes_table' =
                    Append(votes_table,
                           VoteRow(VoterInfo(reg, voter_id_vote), voter_id_vote,
                                   candidate_vote, receipt_id, ts))
             /\ now' = ts
             /\ ret' = [Ret("voter_panel", success, voter_id_vote, candidate_vote,
                            receipt_id)
                           EXCEPT !.vote_message =
                                      IF success THEN "Vote cast successfully!"
                                      ELSE "You have already voted!"]

\* the 'Vote Casting' branch as it would be if it did not look the voter id
\* up in registered_voters; the row of a voter without a registration has
\* the voter id in the place of the name and the email
vote_casting_unregistered(reg, voter_id_vote, candidate_vote) ==
    IF voter_id_vote \in voters
    THEN /\ ret' = [Ret("voter_panel", FALSE, voter_id_vote, candidate_vote, <<>>)
                       EXCEPT !.vote_message = "You have already voted."]
         /\ UNCHANGED <<ledgerVars, votes_table, now, hist>>
    ELSE \E tr \in Times :
         \E tt \in TimesFrom(tr) :
         \E ts \in TimesFrom(tt) :
         LET receipt_id == generate_receipt_id(voter_id_vote, candidate_vote, tr)
             success == add_transaction_result(voter_id_vote)
             info == IF voter_id_vote \in RegisteredIds(reg)
                     THEN VoterInfo(reg, voter_id_vote)
                     ELSE [name |-> voter_id_vote, email |-> voter_id_vote,
                           domain |-> 1]
         IN  /\ add_transaction_effect(voter_id_vote, candidate_vote, receipt_id, tt)
             /\ UNCHANGED <<chain, pending_transactions>>
             /\ votes_table' =
                    IF success
                    THEN Append(votes_table,
                                VoteRow(info, voter_id_vote, candidate_vote,
                                        receipt_id, ts))
                    ELSE votes_table
             /\ now' = ts
             /\ ret' = [Ret("voter_panel", success, voter_id_vote, candidate_vote,
                            receipt_id)
                           EXCEPT !.vote_message =
                                      IF success THEN "Vote cast successfully!"
                                      ELSE "You have already voted!"]

\* the 'Vote Casting' branch, run against the registry reg that the
\* registration branch of the same request left
vote_casting(reg, voter_id_vote, candidate_vote) ==
    IF voter_id_vote \notin RegisteredIds(reg)
    THEN /\ ret' = [Ret("voter_panel", FALSE, voter_id_vote, candidate_vote, <<>>)
                       EXCEPT !.vote_message = "You must register before voting."]
         /\ UNCHANGED <<ledgerVars, votes_table, now, hist>>
    ELSE IF voter_id_vote \in voters
    THEN /\ ret' = [Ret("voter_panel", FALSE, voter_id_vote, candidate_vote, <<>>)
                       EXCEPT !.vote_message = "You have already voted."]
         /\ UNCHANGED <<ledgerVars, votes_table, now, hist>>
    ELSE \E tr \in Times :
         \E tt \in TimesFrom(tr) :
         \E ts \in TimesFrom(tt) :
         LET receipt_id == generate_receipt_id(voter_id_vote, candidate_vote, tr)
             success == add_transaction_result(voter_id_vote)
         IN  /\ add_transaction_effect(voter_id_vote, candidate_vote, receipt_id, tt)
             /\ UNCHANGED <<chain, pending_transactions>>
             /\ votes_table' =
                    IF success
                    THEN Append(votes_table,
                                VoteRow(VoterInfo(reg, voter_id_vote), voter_id_vote,
                                        candidate_vote, receipt_id, ts))
                    ELSE votes_table
             /\ now' = ts
             /\ ret' = [Ret("voter_panel", success, voter_id_vote, candidate_vote,
                            receipt_id)
                           EXCEPT !.vote_message =
                                      IF success THEN "Vote cast successfully!"
                                      ELSE "You have already voted!"]

\* one POST to /voter_panel?tab=registration: the registration branch, then
\* the vote casting branch when the form carries vote_action = 'vote'
voter_panel(voter_id, name, email, domain, vote_action, voter_id_vote, candidate_vote) ==
    LET reg == registration_effect(voter_id, name, email, domain)
    IN  /\ registered_voters' = reg
        /\ IF vote_action
           THEN vote_casting(reg, voter_id_vote, candidate_vote)
           ELSE /\ ret' = Ret("voter_panel", FALSE, None, None, <<>>)
                /\ UNCHANGED <<ledgerVars, votes_table, now, hist>>
        /\ requests < MaxRequests
        /\ requests' = requests + 1
        /\ UNCHANGED <<candidate_list, qr_vote_counts, qr_voters, pc, loc, seal_overlap>>

\* ---- app.py: voter_panel, tab 'validator' -------------------------------
\* the loop as it would be if it took a transaction whose receipt_id
\* starts with check_receipt
FirstWithReceipt_by_prefix(txs, check_receipt) ==
    IF \E i \in 1..Len(txs) :
           /\ Len(check_receipt) <= Len(txs[i].receipt_id)
           /\ SubSeq(txs[i].receipt_id, 1, Len(check_receipt)) = check_receipt
    THEN <<txs[CHOOSE i \in 1..Len(txs) :
                  /\ Len(check_receipt) <= Len(txs[i].receipt_id)
                  /\ SubSeq(txs[i].receipt_id, 1, Len(check_receipt)) = check_receipt]>>
    ELSE <<>>

\* the loop of lines 356-360 over a list of transactions: the first one
\* whose receipt_id is check_receipt, in a sequence of its own, or <<>>
FirstWithReceipt(txs, check_receipt) ==
    IF \E i \in 1..Len(txs) : txs[i].receipt_id = check_receipt
    THEN <<txs[CHOOSE i \in 1..Len(txs) :
                  /\ txs[i].receipt_id = check_receipt
                  /\ \A j \in 1..(i - 1) : txs[j].receipt_id # check_receipt]>>
    ELSE <<>>

\* the transaction the validator reports for check_receipt, if any
vote_validator(check_receipt) ==
    FirstWithReceipt(get_all_transactions, check_receipt)

\* ---- app.py: admin_panel ------------------------------------------------
RemoveFirst(s, x) ==
    LET i == CHOOSE j \in 1..Len(s) : s[j] = x /\ \A k \in 1..(j - 1) : s[k] # x
    IN  SubSeq(s, 1, i - 1) \o SubSeq(s, i + 1, Len(s))

\* tab 'candidate', action 'add'
admin_panel_add(new_candidate) ==
    /\ IF new_candidate # None /\ new_candidate \notin Range(candidate_list)
       THEN /\ candidate_list' = Append(candidate_list, new_candidate)
            /\ qr_vote_counts' =
                   [c \in DOMAIN qr_vote_counts \cup {new_candidate} |->
                       IF c = new_candidate THEN 0 ELSE qr_vote_counts[c]]
            /\ ret' = Ret("admin_panel_add", TRUE, None, new_candidate, <<>>)
       ELSE /\ UNCHANGED <<candidate_list, qr_vote_counts>>
            /\ ret' = Ret("admin_panel_add", FALSE, None, new_candidate, <<>>)
    /\ requests < MaxRequests
    /\ requests' = requests + 1
    /\ UNCHANGED <<ledgerVars, qr_voters, registered_voters, votes_table, now, hist,
                   pc, loc, seal_overlap>>

\* tab 'candidate', action 'remove'
admin_panel_remove(remove_candidate) ==
    /\ IF remove_candidate \in Range(candidate_list)
       THEN /\ candidate_list' = RemoveFirst(candidate_list, remove_candidate)
            /\ qr_vote_counts' =
                   [c \in DOMAIN qr_vote_counts \ {remove_candidate} |->
                       qr_vote_counts[c]]
            /\ ret' = Ret("admin_panel_remove", TRUE, None, remove_candidate, <<>>)
       ELSE /\ UNCHANGED <<candidate_list, qr_vote_counts>>
            /\ ret' = Ret("admin_panel_remove", FALSE, None, remove_candidate, <<>>)
    /\ requests < MaxRequests
    /\ requests' = requests + 1
    /\ UNCHANGED <<ledgerVars, qr_voters, registered_voters, votes_table, now, hist,
                   pc, loc, seal_overlap>>

\* tab 'mine', action 'mine'
admin_panel_mine ==
    /\ \E t \in (IF Pending = <<>> THEN {now} ELSE Times) : mine_effect(t) /\ now' = t
    /\ ret' = Ret("admin_panel_mine", mine_result, None, None, <<>>)
    /\ requests < MaxRequests
    /\ requests' = requests + 1
    /\ UNCHANGED <<voters, hist, appVars, pc, loc, seal_overlap>>

\* ---- the requests of app.py, served one at a time -----------------------
\* The emails a form is posted with: every registered one, and one that is
\* not registered yet (emails are only compared for equality, so one new
\* email stands for all of them).
EmailInputs ==
    LET used == {registered_voters[i].email : i \in 1..Len(registered_voters)}
        unused == Emails \ used
    IN  used \cup (IF unused = {} THEN {}
                   ELSE {CHOOSE e \in unused : \A f \in unused : e <= f})

\* the fields a registration form posts: none of them, or all four
RegistrationForms ==
    {<<None, None, None, None>>} \cup (VoterIds \X Names \X EmailInputs \X Domains)

\* A request carries the registration form, the vote form, or both; with
\* both, the registration is the voter's own.
Next ==
    \/ \E f \in RegistrationForms :
          voter_panel(f[1], f[2], f[3], f[4], FALSE, None, None)
    \/ \E voter_id_vote \in VoterIds \cup {None},
          candidate_vote \in Candidates \cup {None} :
          voter_panel(None, None, None, None, TRUE, voter_id_vote, candidate_vote)
    \/ \E f \in RegistrationForms, candidate_vote \in Candidates \cup {None} :
          voter_panel(f[1], f[2], f[3], f[4], TRUE, f[1], candidate_vote)
    \/ admin_panel_mine

Spec == Init /\ [][Next]_vars

\* ---- app2.py: the Streamlit session -------------------------------------
\* One run of the script serves one pressed button; requests counts the runs.
Names2 == {1, 2}
Photos == {1}

\* Rule 2 (lines 515-519): the domain holds an entry of suspicious_domains;
\* domain 2 stands for one that does
domain_is_suspicious(domain) ==
    LET lowered == lower(DomainText(domain))
    IN  \E sus \in suspicious_domains2 : contains(lowered, sus)

\* the domains of the model that Rule 2 flags
SuspiciousDomains == {domain \in {1, 2} : domain_is_suspicious(domain)}

is_suspicious(domain) == domain \in SuspiciousDomains

\* Rule 3 (lines 521-524): len(name.split()) < 2 or len(name) < 5; name 1
\* stands for a full name, name 2 for a short one
name_is_short(name) ==
    split_len(NameText(name)) < 2 \/ Len(NameText(name)) < 5

\* the names of the model that Rule 3 flags
ShortNames == {name \in 1..4 : name_is_short(name)}

is_short_name(name) == name \in ShortNames

\* Rule 1 as it would be if it flagged a shared email from its second row on
rule_duplicate_email_later_rows(voters_df) ==
    SelectSeq([idx \in 1..Len(voters_df) |-> idx],
              LAMBDA idx : \E j \in 1..(idx - 1) :
                              voters_df[j].email = voters_df[idx].email)

\* Rule 1 (lines 509-513): the rows whose email value_counts() counts more
\* than once
rule_duplicate_email(voters_df) ==
    LET shared(idx) ==
            Cardinality({j \in 1..Len(voters_df) :
                            voters_df[j].email = voters_df[idx].email}) > 1
    IN  SelectSeq([idx \in 1..Len(voters_df) |-> idx], shared)

\* Rule 2 (lines 515-519)
rule_suspicious_domain(voters_df) ==
    LET suspicious(idx) == is_suspicious(voters_df[idx].domain)
    IN  SelectSeq([idx \in 1..Len(voters_df) |-> idx], suspicious)

\* Rule 3 (lines 521-524)
rule_short_name(voters_df) ==
    LET short(idx) == is_short_name(voters_df[idx].name)
    IN  SelectSeq([idx \in 1..Len(voters_df) |-> idx], short)

\* lines 507-524: the list flagged as the three loops extend it
flagged_list(voters_df) ==
    rule_duplicate_email(voters_df) \o rule_suspicious_domain(voters_df)
        \o rule_short_name(voters_df)

\* the list flagged used as it stands, without list(set(flagged))
flagged_rows_repeated(voters_df) == flagged_list(voters_df)

\* line 526: flagged = list(set(flagged)), the row numbers lowest first
flagged_rows(voters_df) ==
    LET flagged == Range(flagged_list(voters_df))
        once(idx) == idx \in flagged
    IN  SelectSeq([idx \in 1..Len(voters_df) |-> idx], once)

\* lines 506-527: the rows of voters_df the three rules flag
fraud_flagged(reg) == Range(flagged_rows(reg))

RunDone ==
    /\ requests < MaxRequests
    /\ requests' = requests + 1
    /\ UNCHANGED <<pc, loc, seal_overlap>>

\* 'Register Voter' as it would be if it did not look for the email among
\* the registered ones
register_voter_any_email(voter_id, name, email, domain) ==
    LET accepted ==
            /\ voter_id # None /\ name # None /\ email # None
            /\ voter_id \notin RegisteredIds(registered_voters)
    IN  /\ IF accepted
           THEN \E t \in Times :
                   /\ registered_voters' =
                          Append(registered_voters,
                                 [voter_id |-> voter_id, name |-> name, email |-> email,
                                  domain |-> domain, registered_at |-> t])
                   /\ now' = t
           ELSE UNCHANGED <<registered_voters, now>>
        /\ ret' = [NoRet EXCEPT !.op = "register_voter", !.ok = accepted,
                                !.voter_id = voter_id]
        /\ RunDone
        /\ UNCHANGED <<ledgerVars, candidate_list, qr_vote_counts, qr_voters,
                       votes_table, hist>>

\* 'Register' of either registration form (lines 454-468 and 569-584)
register_voter(voter_id, name, email, domain) ==
    LET accepted ==
            /\ voter_id # None /\ name # None /\ email # None
            /\ voter_id \notin RegisteredIds(registered_voters)
            /\ \A i \in 1..Len(registered_voters) : registered_voters[i].email # email
    IN  /\ IF accepted
           THEN \E t \in Times :
                   /\ registered_voters' =
                          Append(registered_voters,
                                 [voter_id |-> voter_id, name |-> name, email |-> email,
                                  domain |-> domain, registered_at |-> t])
                   /\ now' = t
           ELSE UNCHANGED <<registered_voters, now>>
        /\ ret' = [NoRet EXCEPT !.op = "register_voter", !.ok = accepted,
                                !.voter_id = voter_id]
        /\ RunDone
        /\ UNCHANGED <<ledgerVars, candidate_list, qr_vote_counts, qr_voters,
                       votes_table, hist>>

\* 'Add Candidate' (lines 358-370)
add_candidate(new_candidate) ==
    /\ IF new_candidate # None /\ new_candidate \notin Range(candidate_list)
       THEN /\ candidate_list' = Append(candidate_list, new_candidate)
            /\ qr_vote_counts' =
                   [c \in DOMAIN qr_vote_counts \cup {new_candidate} |->
                       IF c = new_candidate THEN 0 ELSE qr_vote_counts[c]]
       ELSE UNCHANGED <<candidate_list, qr_vote_counts>>
    /\ ret' = [NoRet EXCEPT !.op = "add_candidate",
                            !.ok = (new_candidate # None
                                    /\ new_candidate \notin Range(candidate_list)),
                            !.candidate = new_candidate]
    /\ RunDone
    /\ UNCHANGED <<ledgerVars, qr_voters, registered_voters, votes_table, now, hist>>

\* 'Remove' next to a candidate of the list (lines 388-391)
remove_candidate(candidate) ==
    /\ candidate \in Range(candidate_list)
    /\ candidate_list' = RemoveFirst(candidate_list, candidate)
    /\ qr_vote_counts' = [c \in DOMAIN qr_vote_counts \ {candidate} |-> qr_vote_counts[c]]
    /\ ret' = [NoRet EXCEPT !.op = "remove_candidate", !.ok = TRUE,
                            !.candidate = candidate]
    /\ RunDone
    /\ UNCHANGED <<ledgerVars, qr_voters, registered_voters, votes_table, now, hist>>

VoteRow2(voter_id, name, email, domain, candidate, receipt_id, method, timestamp) ==
    [voter_id |-> voter_id, name |-> name, email |-> email, domain |-> domain,
     candidate |-> candidate, receipt |-> receipt_id, method |-> method,
     timestamp |-> timestamp]

\* 'Submit Vote' (lines 601-618); both select boxes offer what is listed
submit_vote(voter_id, candidate) ==
    /\ voter_id \in RegisteredIds(registered_voters)
    /\ candidate \in Range(candidate_list)
    /\ IF voter_id \in voters
       THEN /\ ret' = [NoRet EXCEPT !.op = "submit_vote", !.voter_id = voter_id]
            /\ UNCHANGED <<ledgerVars, votes_table, now, hist>>
       ELSE \E timestamp \in Times :
            \E tt \in TimesFrom(timestamp) :
            LET receipt_id == generate_receipt_id(voter_id, candidate, timestamp)
                info == VoterInfo(registered_voters, voter_id)
            IN  /\ add_transaction_effect(voter_id, candidate, receipt_id, tt)
                /\ UNCHANGED <<chain, pending_transactions>>
                /\ votes_table' =
                       IF add_transaction_result(voter_id)
                       THEN Append(votes_table,
                                   VoteRow2(voter_id, info.name, info.email, info.domain,
                                            candidate, receipt_id, "Manual", timestamp))
                       ELSE votes_table
                /\ now' = tt
                /\ ret' = Ret("submit_vote", add_transaction_result(voter_id),
                              voter_id, candidate, receipt_id)
    /\ RunDone
    /\ UNCHANGED <<candidate_list, qr_vote_counts, qr_voters, registered_voters>>

\* 'Mine Pending Transactions' and 'Mine Block' (lines 339-343 and 406-410)
mine_button ==
    /\ \E t \in (IF Pending = <<>> THEN {now} ELSE Times) : mine_effect(t) /\ now' = t
    /\ ret' = Ret("mine_button", mine_result, None, None, <<>>)
    /\ RunDone
    /\ UNCHANGED <<voters, hist, appVars>>

\* 'Clear Pending' as it would be if it also let the voters of the dropped
\* transactions vote again
clear_pending_unmarking ==
    /\ heap' = Append(heap, <<>>)
    /\ pending_transactions' = Len(heap) + 1
    /\ voters' = voters \ {Pending[i].voter_id : i \in 1..Len(Pending)}
    /\ ret' = Ret("clear_pending", TRUE, None, None, <<>>)
    /\ RunDone
    /\ UNCHANGED <<chain, hist, appVars, now>>

\* 'Clear Pending' (lines 412-414): blockchain.pending_transactions = []
clear_pending ==
    /\ heap' = Append(heap, <<>>)
    /\ pending_transactions' = Len(heap) + 1
    /\ voters' = voters
    /\ ret' = Ret("clear_pending", TRUE, None, None, <<>>)
    /\ RunDone
    /\ UNCHANGED <<chain, hist, appVars, now>>

\* 'Remove Flagged Registrations' as it would be if it also let the removed
\* voters vote again
remove_flagged_unmarking ==
    /\ fraud_flagged(registered_voters) # {}
    /\ LET flagged == fraud_flagged(registered_voters)
       IN  /\ registered_voters' =
                  SelectSeq(registered_voters,
                            LAMBDA v : \A i \in flagged :
                                          registered_voters[i].voter_id # v.voter_id)
           /\ voters' = voters \ {registered_voters[i].voter_id : i \in flagged}
    /\ ret' = Ret("remove_flagged", TRUE, None, None, <<>>)
    /\ RunDone
    /\ UNCHANGED <<chain, heap, pending_transactions, candidate_list, qr_vote_counts,
                   qr_voters, votes_table, now, hist>>

\* 'Remove Flagged Registrations' (lines 541-545); the button is drawn only
\* when the scan flagged something
remove_flagged ==
    /\ fraud_flagged(registered_voters) # {}
    /\ registered_voters' =
           LET flagged == fraud_flagged(registered_voters)
           IN  SelectSeq(registered_voters,
                         LAMBDA v : \A i \in flagged :
                                       registered_voters[i].voter_id # v.voter_id)
    /\ ret' = Ret("remove_flagged", TRUE, None, None, <<>>)
    /\ RunDone
    /\ UNCHANGED <<ledgerVars, candidate_list, qr_vote_counts, qr_voters, votes_table,
                   now, hist>>

\* f"qr_voter_{hashlib.md5(uploaded_file.getvalue()).hexdigest()}" (line 735):
\* an image is the QR code it shows and the photo that was taken of it
QrVoterId(content, photo) == 100 + 10 * photo + content

\* 'Scan QR Code' with an uploaded image (lines 724-770)
qr_vote(content, photo) ==
    /\ IF content # None /\ content \in Range(candidate_list)
          /\ QrVoterId(content, photo) \notin qr_voters
       THEN \E timestamp \in Times :
            LET voter_id == QrVoterId(content, photo)
                receipt_id == generate_receipt_id(voter_id, content, timestamp)
            IN  /\ qr_vote_counts' =
                       [c \in DOMAIN qr_vote_counts \cup {content} |->
                           IF c = content THEN CountOf(qr_vote_counts, c) + 1
                           ELSE qr_vote_counts[c]]
                /\ qr_voters' = qr_voters \cup {voter_id}
                /\ votes_table' =
                       Append(votes_table,
                              VoteRow2(voter_id, 9, 9, 9, content, receipt_id, "QR",
                                       timestamp))
                /\ now' = timestamp
                /\ ret' = Ret("qr_vote", TRUE, voter_id, content, receipt_id)
       ELSE /\ ret' = [NoRet EXCEPT !.op = "qr_vote", !.candidate = content]
            /\ UNCHANGED <<qr_vote_counts, qr_voters, votes_table, now>>
    /\ RunDone
    /\ UNCHANGED <<ledgerVars, candidate_list, registered_voters, hist>>

\* the loop of lines 662-674: the first row with the receipt and the vote
\* method QR
FirstQrRow(rows, receipt_id) ==
    IF \E i \in 1..Len(rows) : rows[i].receipt = receipt_id /\ rows[i].method = "QR"
    THEN <<rows[CHOOSE i \in 1..Len(rows) :
                   /\ rows[i].receipt = receipt_id /\ rows[i].method = "QR"
                   /\ \A j \in 1..(i - 1) :
                          ~(rows[j].receipt = receipt_id /\ rows[j].method = "QR")]>>
    ELSE <<>>

\* 'Verify Vote' as it would be if the second loop took a row of any vote
\* method
verify_result_any_row(receipt_id) ==
    IF receipt_id = <<>>
    THEN [check_result |-> "Please enter a receipt ID", voter_id |-> None,
          candidate |-> None]
    ELSE IF FirstWithReceipt(get_all_transactions, receipt_id) # <<>>
    THEN [check_result |-> "Blockchain Vote Verified!",
          voter_id |-> FirstWithReceipt(get_all_transactions, receipt_id)[1].voter_id,
          candidate |-> FirstWithReceipt(get_all_transactions, receipt_id)[1].candidate]
    ELSE IF \E i \in 1..Len(votes_table) : votes_table[i].receipt = receipt_id
    THEN [check_result |-> "QR Vote Verified!",
          voter_id |-> votes_table[CHOOSE i \in 1..Len(votes_table) :
                                       votes_table[i].receipt = receipt_id].voter_id,
          candidate |-> votes_table[CHOOSE i \in 1..Len(votes_table) :
                                        votes_table[i].receipt = receipt_id].candidate]
    ELSE [check_result |-> "Receipt ID not found in the system", voter_id |-> None,
          candidate |-> None]

\* 'Verify Vote' (lines 639-677): what is shown for receipt_id
verify_result(receipt_id) ==
    IF receipt_id = <<>>
    THEN [check_result |-> "Please enter a receipt ID", voter_id |-> None,
          candidate |-> None]
    ELSE IF FirstWithReceipt(get_all_transactions, receipt_id) # <<>>
    THEN [check_result |-> "Blockchain Vote Verified!",
          voter_id |-> FirstWithReceipt(get_all_transactions, receipt_id)[1].voter_id,
          candidate |-> FirstWithReceipt(get_all_transactions, receipt_id)[1].candidate]
    ELSE IF FirstQrRow(votes_table, receipt_id) # <<>>
    THEN [check_result |-> "QR Vote Verified!",
          voter_id |-> FirstQrRow(votes_table, receipt_id)[1].voter_id,
          candidate |-> FirstQrRow(votes_table, receipt_id)[1].candidate]
    ELSE [check_result |-> "Receipt ID not found in the system", voter_id |-> None,
          candidate |-> None]

verify_vote(receipt_id) ==
    /\ ret' = [NoRet EXCEPT !.op = "verify_vote",
                            !.ok = (verify_result(receipt_id).check_result
                                        \in {"Blockchain Vote Verified!",
                                             "QR Vote Verified!"}),
                            !.voter_id = verify_result(receipt_id).voter_id,
                            !.candidate = verify_result(receipt_id).candidate,
                            !.receipt_id = receipt_id,
                            !.check_result = verify_result(receipt_id).check_result]
    /\ RunDone
    /\ UNCHANGED <<ledgerVars, appVars, now, hist>>

\* The receipts typed into 'Verify Vote': nothing, a receipt that was shown
\* to a voter, or such a receipt without its last character.
IssuedReceipts ==
    {x.receipt_id : x \in DOMAIN hist}
        \cup {votes_table[i].receipt : i \in 1..Len(votes_table)}

ReceiptInputs ==
    {<<>>} \cup IssuedReceipts
           \cup {SubSeq(r, 1, Len(r) - 1) : r \in IssuedReceipts}

\* The session once the election is set up: the candidates are listed and
\* two voters have registered, the second under a short name.
InitApp2 ==
    /\ InitLedger
    /\ candidate_list = [c \in 1..NumCandidates |-> c]
    /\ qr_vote_counts = [c \in Candidates |-> 0]
    /\ qr_voters = {}
    /\ registered_voters =
           [i \in 1..2 |->
               [voter_id |-> i, name |-> i, email |-> i, domain |-> 1,
                registered_at |-> 0]]
    /\ votes_table = <<>>
    /\ InitThreads
    /\ ret = NoRet
    /\ hist = EmptyBag

NextApp2 ==
    \/ \E voter_id \in VoterIds, name \in Names2, email \in EmailInputs,
          domain \in Domains :
          register_voter(voter_id, name, email, domain)
    \/ register_voter(None, None, None, None)
    \/ \E new_candidate \in Candidates \cup {None} : add_candidate(new_candidate)
    \/ \E candidate \in Candidates : remove_candidate(candidate)
    \/ \E voter_id \in VoterIds, candidate \in Candidates : submit_vote(voter_id, candidate)
    \/ mine_button
    \/ clear_pending
    \/ remove_flagged
    \/ \E content \in Candidates \cup {None}, photo \in Photos : qr_vote(content, photo)
    \/ \E receipt_id \in ReceiptInputs : verify_vote(receipt_id)

SpecApp2 == InitApp2 /\ [][NextApp2]_vars

\* ---- app2.py with a Mine button that keeps being pressed ----------------
\* 'Mine Block' pressed in a run that is not one of the MaxRequests runs the
\* other buttons share
mine_pressed ==
    /\ \E t \in (IF Pending = <<>> THEN {now} ELSE Times) : mine_effect(t) /\ now' = t
    /\ ret' = Ret("mine_button", mine_result, None, None, <<>>)
    /\ UNCHANGED <<voters, hist, appVars, threadVars>>

NextApp2Live ==
    \/ NextApp2
    \/ mine_pressed

\* the Mine button is pressed again and again
SpecApp2Live == InitApp2 /\ [][NextApp2Live]_vars /\ WF_vars(mine_pressed)

\* the ledger on its own, with mine called again and again
SpecLedgerLive == SpecLedger /\ WF_vars(call_mine)

\* ---- app.py under Flask's threaded server -------------------------------
\* Each request runs in a thread of its own and the handlers take no lock,
\* so the steps below (one per access to the shared objects) interleave
\* freely.

\* time.time() and datetime.now() as the threads of one burst of requests read
\* them: the burst is served within one reading of the clock (no handler
\* branches on a timestamp)
TimesInBurst == {now}

\* The state the server is in when the burst arrives: two voters have
\* registered, nothing has been cast or sealed
InitFlask ==
    /\ InitLedger
    /\ candidate_list = <<>>
    /\ qr_vote_counts = [c \in {} |-> 0]
    /\ qr_voters = {}
    /\ registered_voters =
           [i \in 1..2 |->
               [voter_id |-> i, name |-> 1, email |-> i, domain |-> 1]]
    /\ votes_table = <<>>
    /\ InitThreads
    /\ ret = NoRet
    /\ hist = EmptyBag

InMine(t) == pc[t] \in {"mine_69", "mine_71", "mine_72", "mine_36", "mine_76", "mine_77"}

Finish(t) ==
    /\ pc' = [pc EXCEPT ![t] = "idle"]
    /\ loc' = [loc EXCEPT ![t] = NoLoc]

\* voter_panel, lines 327-331: a request from the vote form arrives; the
\* registry lookup
vote_330(t, voter_id_vote, candidate_vote) ==
    /\ pc[t] = "idle"
    /\ requests < MaxRequests
    /\ requests' = requests + 1
    /\ IF voter_id_vote \notin RegisteredIds(registered_voters)
       THEN UNCHANGED <<pc, loc>>
       ELSE /\ pc' = [pc EXCEPT ![t] = "vote_332"]
            /\ loc' = [loc EXCEPT ![t] = [NoLoc EXCEPT !.voter_id = voter_id_vote,
                                                       !.candidate = candidate_vote]]
    /\ UNCHANGED <<ledgerVars, appVars, now, ret, hist, seal_overlap>>

\* voter_panel, lines 332-335: the handler's own look at blockchain.voters,
\* then the receipt
vote_332(t) ==
    /\ pc[t] = "vote_332"
    /\ IF loc[t].voter_id \in voters
       THEN Finish(t) /\ UNCHANGED now
       ELSE \E tr \in TimesInBurst :
               /\ now' = tr
               /\ pc' = [pc EXCEPT ![t] = "add_54"]
               /\ loc' = [loc EXCEPT ![t].receipt_id =
                             generate_receipt_id(loc[t].voter_id, loc[t].candidate, tr)]
    /\ UNCHANGED <<ledgerVars, appVars, ret, hist, requests, seal_overlap>>

\* add_transaction, lines 54-61: the membership test, then the dict
add_54(t) ==
    /\ pc[t] = "add_54"
    /\ IF loc[t].voter_id \in voters
       THEN Finish(t) /\ UNCHANGED now
       ELSE \E tt \in TimesInBurst :
               /\ now' = tt
               /\ pc' = [pc EXCEPT ![t] = "add_62"]
               /\ loc' = [loc EXCEPT ![t].tx =
                             <<Transaction(loc[t].voter_id, loc[t].candidate,
                                           loc[t].receipt_id, tt)>>]
    /\ UNCHANGED <<ledgerVars, appVars, ret, hist, requests, seal_overlap>>

\* add_transaction, line 62: the attribute self.pending_transactions is loaded
add_62(t) ==
    /\ pc[t] = "add_62"
    /\ pc' = [pc EXCEPT ![t] = "add_62_append"]
    /\ loc' = [loc EXCEPT ![t].ref = pending_transactions]
    /\ UNCHANGED <<ledgerVars, appVars, now, ret, hist, requests, seal_overlap>>

\* add_transaction, line 62: append is called on the list that was loaded
add_62_append(t) ==
    /\ pc[t] = "add_62_append"
    /\ heap' = [heap EXCEPT ![loc[t].ref] = Append(@, loc[t].tx[1])]
    /\ hist' = BagAdd(hist, loc[t].tx[1])
    /\ pc' = [pc EXCEPT ![t] = "add_63"]
    /\ UNCHANGED <<chain, pending_transactions, voters, appVars, now, ret, loc,
                   requests, seal_overlap>>

\* add_transaction, line 63
add_63(t) ==
    /\ pc[t] = "add_63"
    /\ voters' = voters \cup {loc[t].voter_id}
    /\ pc' = [pc EXCEPT ![t] = "vote_338"]
    /\ UNCHANGED <<chain, heap, pending_transactions, appVars, now, ret, loc, hist,
                   requests, seal_overlap>>

\* voter_panel, lines 337-348: the row of votes_table
vote_338(t) ==
    /\ pc[t] = "vote_338"
    /\ \E ts \in TimesInBurst :
          /\ now' = ts
          /\ votes_table' =
                 Append(votes_table,
                        VoteRow(VoterInfo(registered_voters, loc[t].voter_id),
                                loc[t].voter_id, loc[t].candidate,
                                loc[t].receipt_id, ts))
    /\ Finish(t)
    /\ UNCHANGED <<ledgerVars, candidate_list, qr_vote_counts, qr_voters, registered_voters,
                   ret, hist, requests, seal_overlap>>

\* admin_panel, lines 247-250 and mine, lines 67-68: the pending list is
\* loaded and tested
mine_67(t) ==
    /\ pc[t] = "idle"
    /\ requests < MaxRequests
    /\ requests' = requests + 1
    /\ IF Pending = <<>>
       THEN UNCHANGED <<pc, seal_overlap>>
       ELSE /\ pc' = [pc EXCEPT ![t] = "mine_69"]
            /\ seal_overlap' = (seal_overlap \/ \E u \in Threads \ {t} : InMine(u))
    /\ UNCHANGED <<ledgerVars, appVars, now, ret, loc, hist>>

\* mine, line 69: last_block = self.chain[-1]
mine_69(t) ==
    /\ pc[t] = "mine_69"
    /\ pc' = [pc EXCEPT ![t] = "mine_71"]
    /\ loc' = [loc EXCEPT ![t].last_hash = chain[Len(chain)].hash]
    /\ UNCHANGED <<ledgerVars, appVars, now, ret, hist, requests, seal_overlap>>

\* mine, line 71: index=len(self.chain)
mine_71(t) ==
    /\ pc[t] = "mine_71"
    /\ pc' = [pc EXCEPT ![t] = "mine_72"]
    /\ loc' = [loc EXCEPT ![t].index = Len(chain)]
    /\ UNCHANGED <<ledgerVars, appVars, now, ret, hist, requests, seal_overlap>>

\* mine as it would be if it gave the new block a copy of the pending list
mine_72_copy(t) ==
    /\ pc[t] = "mine_72"
    /\ \E ts \in TimesInBurst :
          /\ now' = ts
          /\ loc' = [loc EXCEPT ![t].ref = Len(heap) + 1, ![t].timestamp = ts]
    /\ heap' = Append(heap, heap[pending_transactions])
    /\ pc' = [pc EXCEPT ![t] = "mine_36"]
    /\ UNCHANGED <<chain, pending_transactions, voters, appVars, ret, hist, requests,
                   seal_overlap>>

\* mine, lines 72-73: transactions=self.pending_transactions, timestamp=time.time()
mine_72(t) ==
    /\ pc[t] = "mine_72"
    /\ \E ts \in TimesInBurst :
          /\ now' = ts
          /\ loc' = [loc EXCEPT ![t].ref = pending_transactions, ![t].timestamp = ts]
    /\ pc' = [pc EXCEPT ![t] = "mine_36"]
    /\ UNCHANGED <<ledgerVars, appVars, ret, hist, requests, seal_overlap>>

\* Block.__init__, line 36: the hash is computed over the list as it is now
mine_36(t) ==
    /\ pc[t] = "mine_36"
    /\ loc' = [loc EXCEPT ![t].new_block =
                  <<Block(loc[t].index, loc[t].ref, heap[loc[t].ref],
                          loc[t].timestamp, loc[t].last_hash)>>]
    /\ pc' = [pc EXCEPT ![t] = "mine_76"]
    /\ UNCHANGED <<ledgerVars, appVars, now, ret, hist, requests, seal_overlap>>

\* mine, line 76
mine_76(t) ==
    /\ pc[t] = "mine_76"
    /\ chain' = Append(chain, loc[t].new_block[1])
    /\ pc' = [pc EXCEPT ![t] = "mine_77"]
    /\ UNCHANGED <<heap, pending_transactions, voters, appVars, now, ret, loc, hist,
                   requests, seal_overlap>>

\* mine, line 77: self.pending_transactions = []
mine_77(t) ==
    /\ pc[t] = "mine_77"
    /\ heap' = Append(heap, <<>>)
    /\ pending_transactions' = Len(heap) + 1
    /\ Finish(t)
    /\ UNCHANGED <<chain, voters, appVars, now, ret, hist, requests, seal_overlap>>

NextFlask ==
    \E t \in Threads :
        \/ \E v \in VoterIds \cup {None}, c \in Candidates : vote_330(t, v, c)
        \/ vote_332(t)
        \/ add_54(t)
        \/ add_62(t)
        \/ add_62_append(t)
        \/ add_63(t)
        \/ vote_338(t)
        \/ mine_67(t)
        \/ mine_69(t)
        \/ mine_71(t)
        \/ mine_72(t)
        \/ mine_36(t)
        \/ mine_76(t)
        \/ mine_77(t)

SpecFlask == InitFlask /\ [][NextFlask]_vars

\* ======================================================================
\* Properties
\* ======================================================================

\* the transactions admitted so far for voter v
AdmissionsOf(b, v) == {x \in DOMAIN b : x.voter_id = v}

\* no voter has been admitted twice
SingleAdmission(b) ==
    /\ \A x \in DOMAIN b : b[x] = 1
    /\ \A v \in VoterIds : Cardinality(AdmissionsOf(b, v)) <= 1

\* the list objects the ledger holds: the pending list and every block's list
LedgerRefs == {pending_transactions} \cup {chain[i].transactions : i \in 1..Len(chain)}

\* the places of the ledger that hold a transaction
LedgerPositions ==
    UNION {{<<r, i>> : i \in 1..Len(heap[r])} : r \in LedgerRefs}

\* C1: under any sequence of add_transaction and mine calls a voter id is
\* admitted at most once: add_transaction returns True exactly when no
\* transaction was admitted for the voter id before, whether that
\* transaction is still pending or already in a block.
C1_AdmittedAtMostOnce ==
    [][ret'.op = "add_transaction" =>
          /\ ret'.ok <=> AdmissionsOf(hist, ret'.voter_id) = {}
          /\ SingleAdmission(hist')]_vars

\* a second add_transaction for a voter whose vote is sealed was refused
\* while another voter's vote was pending
C1_Witness ==
    /\ ret.op = "add_transaction"
    /\ ~ret.ok
    /\ \E i \in 1..Len(get_all_transactions) :
          get_all_transactions[i].voter_id = ret.voter_id
    /\ Pending # <<>>

\* C2: a successful add_transaction appends one transaction with the given
\* voter id, candidate and receipt id at the end of the pending list, adds
\* the voter id to voters in the same step, and leaves the chain alone.
C2_AdmitAppendsAndMarks ==
    [][(ret'.op = "add_transaction" /\ ret'.ok) =>
          /\ heap' = [heap EXCEPT ![pending_transactions] =
                         Append(@, Transaction(ret'.voter_id, ret'.candidate,
                                               ret'.receipt_id, now'))]
          /\ ret'.voter_id \notin voters
          /\ voters' = voters \cup {ret'.voter_id}
          /\ chain' = chain
          /\ pending_transactions' = pending_transactions]_vars

\* a vote was admitted behind another pending one and is not in any block
C2_Witness ==
    /\ ret.op = "add_transaction"
    /\ ret.ok
    /\ Len(Pending) >= 2
    /\ Pending[Len(Pending)].voter_id = ret.voter_id
    /\ ret.voter_id \in voters
    /\ \A i \in 1..Len(get_all_transactions) :
          get_all_transactions[i].voter_id # ret.voter_id

\* C3: a vote request refused because the voter id is already in voters
\* changes neither the chain, the pending list, voters nor votes_table.
C3_RejectedAdmissionChangesNothing ==
    [][(/\ ret'.op = "voter_panel"
        /\ ret'.vote_message \in {"You have already voted.", "You have already voted!"}) =>
          UNCHANGED <<chain, heap, pending_transactions, voters, votes_table>>]_vars

\* a registered voter who had voted asked to vote again and was refused
C3_Witness ==
    /\ ret.op = "voter_panel"
    /\ ret.vote_message \in {"You have already voted.", "You have already voted!"}
    /\ ret.voter_id \in voters
    /\ votes_table # <<>>

\* C4: mine with a non-empty pending list reports success and appends one
\* block that holds the whole pending list in order, has the former chain
\* length as index and the former last block's hash as previous_hash; the
\* pending list is empty afterwards.
C4_SealMovesPending ==
    [][(ret'.op = "mine" /\ Pending # <<>>) =>
          /\ ret'.ok
          /\ Len(chain') = Len(chain) + 1
          /\ SubSeq(chain', 1, Len(chain)) = chain
          /\ heap'[chain'[Len(chain')].transactions] = Pending
          /\ chain'[Len(chain')].index = Len(chain)
          /\ chain'[Len(chain')].previous_hash = chain[Len(chain)].hash
          /\ heap'[pending_transactions'] = <<>>]_vars

\* a block was mined and it holds two votes
C4_Witness ==
    /\ ret.op = "mine"
    /\ ret.ok
    /\ Len(chain) = 2
    /\ Len(heap[chain[2].transactions]) = 2
    /\ chain[2].index = 1
    /\ Pending = <<>>

\* C5: mine with an empty pending list returns False and changes neither
\* the chain, the pending list nor voters; no block after genesis is empty.
C5_EmptySealIsNoOp ==
    [][/\ (ret'.op = "mine" /\ Pending = <<>>) =>
              (~ret'.ok /\ UNCHANGED <<chain, heap, pending_transactions, voters>>)
       /\ \A i \in 2..Len(chain') : heap'[chain'[i].transactions] # <<>>]_vars

\* mine was refused right after a block had been mined
C5_Witness ==
    /\ ret.op = "mine"
    /\ ~ret.ok
    /\ Len(chain) >= 2
    /\ Pending = <<>>

\* C6: chain[0] is the genesis block (index 0, no transactions,
\* previous_hash "0") and every later block's previous_hash is the hash of
\* the block before it.
C6_ChainLinked ==
    /\ chain[1].index = 0
    /\ heap[chain[1].transactions] = <<>>
    /\ chain[1].previous_hash = Sentinel
    /\ \A i \in 2..Len(chain) : chain[i].previous_hash = chain[i - 1].hash

\* two blocks were mined on top of genesis
C6_Witness ==
    /\ Len(chain) = 3
    /\ chain[3].previous_hash = chain[2].hash
    /\ chain[2].hash # chain[1].hash

\* C7: of two vote requests for one voter id that run in two threads at
\* most one is admitted, so the pending list and the blocks together never
\* hold two transactions of one voter id.
C7_OneAdmissionUnderThreads ==
    /\ SingleAdmission(hist)
    /\ \A v \in VoterIds :
          Cardinality({p \in LedgerPositions : heap[p[1]][p[2]].voter_id = v}) <= 1

\* C8: while no two mine calls overlap, every transaction that a request
\* appended is held by the ledger (in the pending list or in a block's
\* list) as often as it was appended, and get_all_transactions, which the
\* tally counts, never returns it more often than that.
C8_AdmitDuringSealKept ==
    ~seal_overlap =>
        \A x \in DOMAIN hist :
            /\ Cardinality({p \in LedgerPositions : heap[p[1]][p[2]] = x}) = hist[x]
            /\ Occurrences(get_all_transactions, x) <= hist[x]

\* a vote was appended to the pending list after mine had computed the hash
\* of the block that keeps that list
C8_Witness ==
    /\ ~seal_overlap
    /\ \A t \in Threads : pc[t] = "idle"
    /\ \E i \in 2..Len(chain) :
          chain[i].hash # compute_hash(<<>>, chain[i].index, chain[i].nonce,
                                       chain[i].previous_hash, chain[i].timestamp,
                                       heap[chain[i].transactions])

\* the pending list is also the list of a block of the chain, and not empty
HalfSealed ==
    \E i \in 1..Len(chain) :
        chain[i].transactions = pending_transactions /\ Pending # <<>>

\* the steps that read the chain or the pending list next
ReadingSteps == {"add_62", "mine_69", "mine_71", "mine_72"}

\* C9: no thread that is about to read the chain or the pending list finds
\* the same transactions both in a block and in the pending list.
C9_SealIsAtomic ==
    \A t \in Threads : pc[t] \in ReadingSteps => ~HalfSealed

\* C10: two mine calls running in two threads leave what one after the
\* other would leave: block i has index i and the hash of block i-1 as
\* previous_hash, and no two blocks hold the same list of transactions.
C10_SealsSerial ==
    /\ \A i \in 2..Len(chain) :
          /\ chain[i].index = i - 1
          /\ chain[i].previous_hash = chain[i - 1].hash
    /\ \A i, j \in 1..Len(chain) :
          i # j => chain[i].transactions # chain[j].transactions

\* C13: in calls made one after the other the chain only grows at its end:
\* every block that is in the chain keeps its place, its index, timestamp,
\* previous_hash and hash and the content of its transaction list, and the
\* only call that changes the chain is a mine that returns True, which
\* appends one block.
C13_ChainAppendOnly ==
    [][/\ Len(chain') >= Len(chain)
       /\ SubSeq(chain', 1, Len(chain)) = chain
       /\ \A i \in 1..Len(chain) :
              heap'[chain[i].transactions] = heap[chain[i].transactions]
       /\ chain' # chain =>
              (ret'.op = "mine" /\ ret'.ok /\ Len(chain') = Len(chain) + 1)]_vars

\* a vote was admitted after a block had been mined, and the block still
\* holds what it held
C13_Witness ==
    /\ ret.op = "add_transaction"
    /\ ret.ok
    /\ Len(chain) = 2
    /\ Len(heap[chain[2].transactions]) = 1
    /\ Pending # <<>>

\* C14: get_results counts the transactions of the blocks only: an
\* add_transaction leaves the mapping it returns as it was, and so does
\* every other call except a mine that returns True; two get_results calls
\* with no mine between them return equal mappings.
C14_AdmitLeavesTally ==
    [][~(ret'.op = "mine" /\ ret'.ok) => get_results' = get_results]_vars

\* a vote was admitted for a candidate the tally already counts once, and
\* the tally still counts that candidate once
C14_Witness ==
    /\ ret.op = "add_transaction"
    /\ ret.ok
    /\ Pending # <<>>
    /\ ret.candidate \in DOMAIN get_results
    /\ get_results[ret.candidate] = 1
    /\ Pending[Len(Pending)].candidate = ret.candidate

\* C15: a mine that returns True raises the count get_results gives to
\* each candidate by the number of pending transactions that named the
\* candidate, and so leaves the count of every other candidate as it was.
C15_SealAddsPendingToTally ==
    [][(ret'.op = "mine" /\ ret'.ok) =>
          /\ \A c \in Candidates \cup {None} :
                 CountOf(get_results', c) =
                     CountOf(get_results, c)
                         + Cardinality({i \in 1..Len(Pending) : Pending[i].candidate = c})
          /\ DOMAIN get_results' \subseteq Candidates \cup {None}]_vars

\* a block with two votes for one candidate was mined
C15_Witness ==
    /\ ret.op = "mine"
    /\ ret.ok
    /\ \E c \in DOMAIN get_results :
          /\ get_results[c] = 2
          /\ Len(heap[chain[Len(chain)].transactions]) = 2

\* what get_all_transactions returns, followed by the pending list
LedgerOrder == get_all_transactions \o Pending

\* C16: get_all_transactions returns the transactions of the blocks after
\* genesis, block by block, and in calls made one after the other that is
\* the order of admission: an admission puts its transaction behind all
\* sealed and pending ones and leaves the returned list alone, a mine that
\* returns True makes the returned list the sealed transactions followed
\* by the pending ones, nothing else changes the order, and the call
\* itself changes nothing of the ledger.
C16_SealedInAdmissionOrder ==
    [][/\ (ret'.op = "add_transaction" /\ ret'.ok) =>
              /\ LedgerOrder' =
                     Append(LedgerOrder,
                            Transaction(ret'.voter_id, ret'.candidate,
                                        ret'.receipt_id, now'))
              /\ get_all_transactions' = get_all_transactions
       /\ ~(ret'.op = "add_transaction" /\ ret'.ok) => LedgerOrder' = LedgerOrder
       /\ (ret'.op = "mine" /\ ret'.ok) =>
              /\ get_all_transactions' = LedgerOrder
              /\ heap'[pending_transactions'] = <<>>
       /\ ret'.op = "get_all_transactions" =>
              UNCHANGED <<chain, heap, pending_transactions, voters>>]_vars

\* get_all_transactions was called when two blocks had been mined, and it
\* returned the vote of the first block before the vote of the second
C16_Witness ==
    /\ ret.op = "get_all_transactions"
    /\ Len(chain) = 3
    /\ Len(get_all_transactions) = 2
    /\ get_all_transactions[1] = heap[chain[2].transactions][1]
    /\ get_all_transactions[2] = heap[chain[3].transactions][1]
    /\ get_all_transactions[1] # get_all_transactions[2]

\* block.compute_hash() called on a block of the chain: self.hash is set by
\* now and is one of the keys of __dict__
recompute_hash(block) ==
    compute_hash(block.hash, block.index, block.nonce, block.previous_hash,
                 block.timestamp, heap[block.transactions])

\* C20: compute_hash called again on a block of the chain whose fields are
\* as the constructor left them returns the hash the block stores.
C20_RecomputedHashMatches ==
    \A i \in 1..Len(chain) :
        recompute_hash(chain[i]) = chain[i].hash

\* C17: once a vote that was cast through voter_panel is in a block, the
\* validator asked for the receipt of that vote reports a transaction with
\* the voter id and the candidate of the vote.
C17_SealedReceiptFindsVote ==
    \A i \in 1..Len(get_all_transactions) :
        LET tx == get_all_transactions[i]
            found == vote_validator(tx.receipt_id)
        IN  /\ found # <<>>
            /\ found[1].voter_id = tx.voter_id
            /\ found[1].candidate = tx.candidate

\* the number of places of the ledger that hold transaction x
HeldCopies(x) == Cardinality({p \in LedgerPositions : heap[p[1]][p[2]] = x})

\* C11: every transaction that add_transaction admitted is in the pending
\* list or in a block, whatever button of app2 is pressed afterwards.
C11_AdmittedVoteStays ==
    \A x \in DOMAIN hist : HeldCopies(x) >= 1

\* C12: no step takes a voter id out of blockchain.voters, and none takes
\* one out of qr_voters.
C12_VotersOnlyGrow ==
    [][voters \subseteq voters' /\ qr_voters \subseteq qr_voters']_vars

\* 'Clear Pending' dropped the only vote there was, and its voter is still
\* in voters
C12_Witness ==
    /\ ret.op = "clear_pending"
    /\ voters # {}
    /\ Pending = <<>>
    /\ Len(chain) = 1

\* C18: 'Verify Vote' asked for a receipt that neither a vote cast by hand
\* nor a QR vote was given reports no vote, and changes nothing.
C18_UnissuedReceiptNotFound ==
    [][(ret'.op = "verify_vote" /\ ret'.receipt_id \notin IssuedReceipts) =>
          /\ ~ret'.ok
          /\ ret'.check_result \in {"Receipt ID not found in the system",
                                    "Please enter a receipt ID"}
          /\ ret'.voter_id = None
          /\ UNCHANGED <<ledgerVars, appVars, hist>>]_vars

\* a receipt without its last character was looked up while the whole
\* receipt was in a block
C18_Witness ==
    /\ ret.op = "verify_vote"
    /\ ret.receipt_id # <<>>
    /\ ret.receipt_id \notin IssuedReceipts
    /\ ret.check_result = "Receipt ID not found in the system"
    /\ \E i \in 1..Len(get_all_transactions) :
          SubSeq(get_all_transactions[i].receipt_id, 1, Len(ret.receipt_id))
              = ret.receipt_id

\* C19: 'Verify Vote' answers from the blocks when a sealed transaction has
\* the receipt; only when none has it does it answer from the rows of
\* votes_table whose vote method is QR, and it reports no vote when neither
\* holds the receipt.
C19_LedgerBeforeQrRecords ==
    [][(ret'.op = "verify_vote" /\ ret'.receipt_id # <<>>) =>
          LET sealed == {i \in 1..Len(get_all_transactions) :
                            get_all_transactions[i].receipt_id = ret'.receipt_id}
              qr == {i \in 1..Len(votes_table) :
                        /\ votes_table[i].receipt = ret'.receipt_id
                        /\ votes_table[i].method = "QR"}
          IN  /\ sealed # {} =>
                     /\ ret'.check_result = "Blockchain Vote Verified!"
                     /\ \E i \in sealed :
                            /\ get_all_transactions[i].voter_id = ret'.voter_id
                            /\ get_all_transactions[i].candidate = ret'.candidate
              /\ (sealed = {} /\ qr # {}) =>
                     /\ ret'.check_result = "QR Vote Verified!"
                     /\ \E i \in qr :
                            /\ votes_table[i].voter_id = ret'.voter_id
                            /\ votes_table[i].candidate = ret'.candidate
              /\ (sealed = {} /\ qr = {}) =>
                     ret'.check_result = "Receipt ID not found in the system"]_vars

\* the receipt of a QR vote was found among the rows of votes_table, past
\* the row of a vote cast by hand
C19_Witness ==
    /\ ret.op = "verify_vote"
    /\ ret.check_result = "QR Vote Verified!"
    /\ ret.voter_id \in qr_voters
    /\ \E i \in 1..Len(votes_table) : votes_table[i].method = "Manual"

\* ---- app.py: qr_code_voting ---------------------------------------------
\* the accounts that are logged in (session['user'], line 155)
Users == {1}

\* one POST to /qr_code_voting?tab=scanner by the logged-in user (lines
\* 393-399)
qr_code_voting(user, selected_cand) ==
    /\ IF selected_cand \in Range(candidate_list)
       THEN /\ qr_vote_counts' =
                   [c \in DOMAIN qr_vote_counts \cup {selected_cand} |->
                       IF c = selected_cand THEN CountOf(qr_vote_counts, c) + 1
                       ELSE qr_vote_counts[c]]
            /\ ret' = Ret("qr_code_voting", TRUE, user, selected_cand, <<>>)
       ELSE /\ UNCHANGED qr_vote_counts
            /\ ret' = Ret("qr_code_voting", FALSE, user, selected_cand, <<>>)
    /\ requests < MaxRequests
    /\ requests' = requests + 1
    /\ UNCHANGED <<ledgerVars, candidate_list, qr_voters, registered_voters,
                   votes_table, now, hist, pc, loc, seal_overlap>>

\* The candidate tab and the mine tab of the admin panel, the vote form and
\* the QR scanner, served one request at a time once two voters have
\* registered
NextQr ==
    \/ \E new_candidate \in Candidates \cup {None} : admin_panel_add(new_candidate)
    \/ \E candidate \in Candidates : admin_panel_remove(candidate)
    \/ \E voter_id_vote \in 1..2, candidate_vote \in Candidates :
          voter_panel(None, None, None, None, TRUE, voter_id_vote, candidate_vote)
    \/ admin_panel_mine
    \/ \E user \in Users, selected_cand \in Candidates \cup {None} :
          qr_code_voting(user, selected_cand)

SpecQr == InitFlask /\ [][NextQr]_vars

\* ---- app.py: the registration branch under Flask's threaded server ------
\* registered_voters[voter_id] = {...} on the dict: a key that is present
\* keeps its place and takes the new value, a new key goes last
DictSet(reg, voter_id, info) ==
    IF voter_id \in RegisteredIds(reg)
    THEN [i \in 1..Len(reg) |-> IF reg[i].voter_id = voter_id THEN info ELSE reg[i]]
    ELSE Append(reg, info)

\* voter_panel, lines 311-317: a request from the registration form arrives
reg_311(t, voter_id, name, email, domain) ==
    /\ pc[t] = "idle"
    /\ requests < MaxRequests
    /\ requests' = requests + 1
    /\ IF voter_id = None \/ name = None \/ email = None \/ domain = None
       THEN UNCHANGED <<pc, loc>>
       ELSE /\ pc' = [pc EXCEPT ![t] = "reg_318"]
            /\ loc' = [loc EXCEPT ![t] =
                          [NoLoc EXCEPT !.form =
                              [voter_id |-> voter_id, name |-> name,
                               email |-> email, domain |-> domain]]]
    /\ UNCHANGED <<ledgerVars, appVars, now, ret, hist, seal_overlap>>

\* voter_panel, line 318: voter_id in registered_voters
reg_318(t) ==
    /\ pc[t] = "reg_318"
    /\ IF loc[t].form.voter_id \in RegisteredIds(registered_voters)
       THEN Finish(t)
       ELSE pc' = [pc EXCEPT ![t] = "reg_320"] /\ UNCHANGED loc
    /\ UNCHANGED <<ledgerVars, appVars, now, ret, hist, requests, seal_overlap>>

\* voter_panel, line 320: any(email == v['email'] ...) over the values the
\* dict holds when the line runs
reg_320(t) ==
    /\ pc[t] = "reg_320"
    /\ IF \E i \in 1..Len(registered_voters) :
             registered_voters[i].email = loc[t].form.email
       THEN Finish(t)
       ELSE pc' = [pc EXCEPT ![t] = "reg_323"] /\ UNCHANGED loc
    /\ UNCHANGED <<ledgerVars, appVars, now, ret, hist, requests, seal_overlap>>

\* voter_panel, line 323: the store into the dict
reg_323(t) ==
    /\ pc[t] = "reg_323"
    /\ registered_voters' =
           DictSet(registered_voters, loc[t].form.voter_id, loc[t].form)
    /\ Finish(t)
    /\ UNCHANGED <<ledgerVars, candidate_list, qr_vote_counts, qr_voters,
                   votes_table, now, ret, hist, requests, seal_overlap>>

NextFlaskRegistration ==
    \E t \in Threads :
        \/ \E voter_id \in VoterIds, name \in Names, email \in Emails,
              domain \in Domains :
              reg_311(t, voter_id, name, email, domain)
        \/ reg_311(t, None, None, None, None)
        \/ reg_318(t)
        \/ reg_320(t)
        \/ reg_323(t)

SpecFlaskRegistration == Init /\ [][NextFlaskRegistration]_vars

\* C22: no two registered voters have the same voter id, and no two have
\* the same email.
C22_RegistryUnique ==
    \A i, j \in 1..Len(registered_voters) :
        i # j => /\ registered_voters[i].voter_id # registered_voters[j].voter_id
                 /\ registered_voters[i].email # registered_voters[j].email

\* ---- app.py: admin_panel, tab 'fraud' -----------------------------------
\* A DataFrame is the sequence of its rows; the row the code indexes idx is
\* row idx + 1 here.

\* lines 275-276: email.lower() ends with "@" + s for a suspicious s
email_is_suspicious(email) ==
    LET lowered == lower(EmailText(email))
    IN  \E sus \in suspicious_domains : endswith(lowered, <<"@">> \o sus)

\* lines 274-277: the rows of voters_df whose email is suspicious
flagged_by_email(voters_df) ==
    {idx \in 1..Len(voters_df) : email_is_suspicious(voters_df[idx].email)}

\* line 281: groupby(['Domain', 'Candidate']).size()
group_size(votes_table_df, domain, candidate) ==
    Cardinality({idx \in 1..Len(votes_table_df) :
                    /\ DomainText(votes_table_df[idx].domain) = DomainText(domain)
                    /\ votes_table_df[idx].candidate = candidate})

\* line 282 with Count >= 3 in the place of Count > 3
suspicious_groups_from_three(votes_table_df) ==
    {g \in {<<votes_table_df[idx].domain, votes_table_df[idx].candidate>> :
                idx \in 1..Len(votes_table_df)} :
        group_size(votes_table_df, g[1], g[2]) >= 3}

\* line 282: the groups with Count > 3
suspicious_groups(votes_table_df) ==
    {g \in {<<votes_table_df[idx].domain, votes_table_df[idx].candidate>> :
                idx \in 1..Len(votes_table_df)} :
        group_size(votes_table_df, g[1], g[2]) > 3}

\* lines 280-285: the rows of votes_table_df the mask of a suspicious group
\* selects
flagged_by_group(votes_table_df) ==
    UNION {{idx \in 1..Len(votes_table_df) :
                /\ DomainText(votes_table_df[idx].domain) = DomainText(g[1])
                /\ votes_table_df[idx].candidate = g[2]} :
           g \in suspicious_groups(votes_table_df)}

\* lines 271-287: the set flagged; both loops add their row numbers to it
fraud_scan_flagged(voters_df, votes_table_df) ==
    flagged_by_email(voters_df) \cup flagged_by_group(votes_table_df)

\* the rows of df at the positions of the set rows, lowest first
RowsAt(df, rows) ==
    SelectSeq([idx \in 1..Len(df) |-> IF idx \in rows THEN <<df[idx]>> ELSE <<>>],
              LAMBDA r : r # <<>>)

\* the tab as it would be if it dropped the rows it flags from the registry
admin_panel_fraud_removing ==
    LET flagged == fraud_scan_flagged(registered_voters, votes_table)
    IN  /\ ret' = [NoRet EXCEPT !.op = "admin_panel_fraud", !.ok = TRUE,
                                !.flagged = flagged]
        /\ registered_voters' =
               Concat(RowsAt(registered_voters, (1..Len(registered_voters)) \ flagged))
        /\ UNCHANGED <<ledgerVars, candidate_list, qr_vote_counts, qr_voters,
                       votes_table, now, hist, threadVars>>

\* line 288: flagged_df = voters_df.loc[flagged]; a number of flagged
\* that is no row of voters_df raises KeyError
admin_panel_fraud ==
    LET flagged == fraud_scan_flagged(registered_voters, votes_table)
        found == flagged \subseteq 1..Len(registered_voters)
    IN  /\ ret' = [NoRet EXCEPT
                      !.op = "admin_panel_fraud",
                      !.ok = found,
                      !.flagged = flagged,
                      !.flagged_df =
                          IF found
                          THEN Concat(RowsAt(registered_voters, flagged))
                          ELSE <<>>]
        /\ UNCHANGED <<ledgerVars, appVars, now, hist, threadVars>>

\* The state the scan is run in: up to MaxRows voters have registered, each
\* as one of FraudProfiles; some of them have cast a vote, lowest voter id
\* first; nothing is sealed.
FraudCandidates == {1, 2}

\* a mailbox at acme.org with the domain acme.org, the same with the domain
\* Spam.Com, and a mailbox at Spam.com with the domain acme.org
FraudProfiles == {<<0, 1>>, <<0, 2>>, <<100, 1>>}

InitFraud ==
    \E n \in 0..MaxRows :
    \E profile \in [1..n -> FraudProfiles],
       vote \in [1..n -> FraudCandidates \cup {None}] :
        LET reg == [i \in 1..n |->
                       [voter_id |-> i, name |-> 1,
                        email |-> profile[i][1] + i,
                        domain |-> profile[i][2]]]
            cast == SelectSeq([i \in 1..n |-> i], LAMBDA i : vote[i] # None)
            txs == [k \in 1..Len(cast) |->
                       Transaction(cast[k], vote[cast[k]],
                                   generate_receipt_id(cast[k], vote[cast[k]], 0), 0)]
        IN  /\ registered_voters = reg
            /\ votes_table =
                   [k \in 1..Len(txs) |->
                       VoteRow(reg[txs[k].voter_id], txs[k].voter_id,
                               txs[k].candidate, txs[k].receipt_id, 0)]
            /\ heap = << txs, <<>> >>
            /\ pending_transactions = 1
            /\ voters = Range(cast)
            /\ chain = << Block(0, 2, <<>>, 0, Sentinel) >>
            /\ now = 0
            /\ candidate_list = <<1, 2>>
            /\ qr_vote_counts = [c \in {} |-> 0]
            /\ qr_voters = {}
            /\ InitThreads
            /\ ret = NoRet
            /\ hist = [tx \in Range(txs) |-> 1]

NextFraud == admin_panel_fraud

SpecFraud == InitFraud /\ [][NextFraud]_vars

\* ---- app2.py and prototype.py: the fraud detection tab ------------------
\* app2.py, lines 490-527: the tab of the admin panel, down to flagged_df
fraud_detection ==
    /\ ret' = IF registered_voters = <<>>
              THEN [NoRet EXCEPT !.op = "fraud_detection"]
              ELSE LET rows == flagged_rows(registered_voters)
                   IN  [NoRet EXCEPT
                           !.op = "fraud_detection",
                           !.ok = TRUE,
                           !.flagged = Range(rows),
                           !.flagged_df =
                               [k \in 1..Len(rows) |-> registered_voters[rows[k]]]]
    /\ UNCHANGED <<ledgerVars, appVars, now, hist, threadVars>>

\* prototype.py, lines 207-208: row['Domain'].lower() holds an entry of the
\* shorter list
prototype_domains == {domain \in {1, 2} :
                         LET lowered == lower(DomainText(domain))
                         IN  \E sus \in suspicious_domains : contains(lowered, sus)}

\* prototype.py, lines 197-211: the duplicate emails, then the domains
prototype_flagged_rows(voters_df) ==
    LET flagged == Range(rule_duplicate_email(voters_df))
                       \cup {idx \in 1..Len(voters_df) :
                                 voters_df[idx].domain \in prototype_domains}
    IN  SelectSeq([idx \in 1..Len(voters_df) |-> idx], LAMBDA idx : idx \in flagged)

\* prototype.py, lines 186-212: the tab of the admin panel
prototype_fraud_detection ==
    /\ ret' = IF registered_voters = <<>>
              THEN [NoRet EXCEPT !.op = "prototype_fraud_detection"]
              ELSE LET rows == prototype_flagged_rows(registered_voters)
                   IN  [NoRet EXCEPT
                           !.op = "prototype_fraud_detection",
                           !.ok = TRUE,
                           !.flagged = Range(rows),
                           !.flagged_df =
                               [k \in 1..Len(rows) |-> registered_voters[rows[k]]]]
    /\ UNCHANGED <<ledgerVars, appVars, now, hist, threadVars>>

\* The registries the scan is given: up to MaxRows rows, each with the
\* email, the domain and the name of one of these.  Mailbox 1 at acme.org
\* is in three of them; 101 is a mailbox at Spam.com.
ScanProfiles ==
    {<<1, 1, 1>>, <<2, 1, 1>>, <<1, 2, 1>>, <<101, 1, 1>>,
     <<3, 1, 2>>, <<4, 1, 3>>, <<5, 1, 4>>, <<1, 2, 2>>}

InitScan ==
    /\ InitLedger
    /\ candidate_list = <<1, 2>>
    /\ qr_vote_counts = [c \in {1, 2} |-> 0]
    /\ qr_voters = {}
    /\ \E n \in 0..MaxRows :
       \E profile \in [1..n -> ScanProfiles] :
          registered_voters =
              [i \in 1..n |->
                  [voter_id |-> i, name |-> profile[i][3],
                   email |-> profile[i][1], domain |-> profile[i][2],
                   registered_at |-> 0]]
    /\ votes_table = <<>>
    /\ InitThreads
    /\ ret = NoRet
    /\ hist = EmptyBag

NextScan ==
    \/ fraud_detection
    \/ prototype_fraud_detection

SpecScan == InitScan /\ [][NextScan]_vars

\* ------------------------------------------------------------------------
\* Tampering with a sealed block
\* ------------------------------------------------------------------------

\* block.compute_hash() on a block whose attributes are fields and whose
\* transaction list reads txs
hash_of(fields, txs) ==
    compute_hash(fields.hash, fields.index, fields.nonce,
                 fields.previous_hash, fields.timestamp, txs)

\* A sealed block after one assignment to one of index, transactions,
\* timestamp, previous_hash; hash is left as the constructor stored it
OneFieldChanged(block) ==
    LET txs == heap[block.transactions]
        forged == Transaction(1, 1, generate_receipt_id(1, 1, 0), 0)
    IN  {[fields |-> [block EXCEPT !.index = x], txs |-> txs] :
            x \in (0..(Len(chain) + 1)) \ {block.index}}
        \cup {[fields |-> [block EXCEPT !.timestamp = x], txs |-> txs] :
            x \in (0..(MaxTime + 1)) \ {block.timestamp}}
        \cup {[fields |-> [block EXCEPT !.previous_hash = x], txs |-> txs] :
            x \in {<<>>, Sentinel, block.hash} \ {block.previous_hash}}
        \cup {[fields |-> block, txs |-> Append(txs, forged)]}
        \cup (IF txs = <<>> THEN {}
              ELSE {[fields |-> block, txs |-> Tail(txs)],
                    [fields |-> block,
                     txs |-> [txs EXCEPT ![1].candidate =
                                 IF txs[1].candidate = 1 THEN 2 ELSE 1]]})

\* C21: comparing block.compute_hash() with block.hash tells a block with
\* one changed field from a block left as it was sealed: the two differ
\* for every one-field change, and they agree for the block unchanged.
C21_ComparisonDetectsChange ==
    \A i \in 1..Len(chain) :
        /\ \A b \in OneFieldChanged(chain[i]) :
              hash_of(b.fields, b.txs) # chain[i].hash
        /\ hash_of(chain[i], heap[chain[i].transactions]) = chain[i].hash

\* ------------------------------------------------------------------------
\* The fraud scan of app.py
\* ------------------------------------------------------------------------

\* the votes recorded for the domain and the candidate of row idx
VotesLike(idx) ==
    {j \in 1..Len(votes_table) :
        /\ votes_table[j].domain = votes_table[idx].domain
        /\ votes_table[j].candidate = votes_table[idx].candidate}

\* C23: after a scan, every row of votes_table whose (domain, candidate)
\* group has more than 3 rows is in the set flagged, and a row whose group
\* has 3 rows or fewer is in it only if the email loop put that row number
\* there.
C23_GroupsOverThreeFlagged ==
    ret.op = "admin_panel_fraud" =>
        \A idx \in 1..Len(votes_table) :
            /\ Cardinality(VotesLike(idx)) > 3 => idx \in ret.flagged
            /\ (Cardinality(VotesLike(idx)) <= 3 /\ idx \in ret.flagged)
                   => idx \in flagged_by_email(registered_voters)

\* a scan of a table in which four votes share a domain and a candidate
C23_Witness ==
    /\ ret.op = "admin_panel_fraud"
    /\ \E idx \in 1..Len(votes_table) :
          /\ Cardinality(VotesLike(idx)) > 3
          /\ VotesLike(idx) \subseteq ret.flagged
          /\ idx \notin flagged_by_email(registered_voters)

\* C27: a scan leaves the registry, votes_table, the chain, the lists of
\* the ledger, the pending list and blockchain.voters as they were, and a
\* scan of the state it leaves flags what it flagged.
C27_ScanReadsOnly ==
    [][ret'.op = "admin_panel_fraud" =>
          /\ UNCHANGED <<registered_voters, votes_table, chain, heap,
                         pending_transactions, voters>>
          /\ ret'.flagged = fraud_scan_flagged(registered_voters', votes_table')]_vars

\* a scan that flagged rows, run with votes on the pending list
C27_Witness ==
    /\ ret.op = "admin_panel_fraud"
    /\ ret.flagged # {}
    /\ votes_table # <<>>
    /\ Pending # <<>>
    /\ voters # {}

\* ------------------------------------------------------------------------
\* The fraud scan of app2.py and of prototype.py
\* ------------------------------------------------------------------------

\* a text that holds an entry of the denylist, whatever the case of its letters
OnDenylist(text) ==
    \E sus \in suspicious_domains2 : contains(lower(text), sus)

\* C24: after a scan, every registered voter whose email or whose domain
\* holds an entry of the denylist is flagged.
C24_DenylistFlagged ==
    ret.op = "fraud_detection" =>
        \A idx \in 1..Len(registered_voters) :
            (\/ OnDenylist(EmailText(registered_voters[idx].email))
             \/ OnDenylist(DomainText(registered_voters[idx].domain)))
                => idx \in ret.flagged

\* C25: after a scan, of app2 or of the prototype, every voter whose email
\* is also the email of another registered voter is flagged.
C25_SharedEmailFlagged ==
    ret.op \in {"fraud_detection", "prototype_fraud_detection"} =>
        \A i, j \in 1..Len(registered_voters) :
            (i # j /\ registered_voters[i].email = registered_voters[j].email)
                => (i \in ret.flagged /\ j \in ret.flagged)

\* a scan of a registry in which two voters share an email, one of them
\* with nothing else against them
C25_Witness ==
    /\ ret.op \in {"fraud_detection", "prototype_fraud_detection"}
    /\ \E i, j \in 1..Len(registered_voters) :
          /\ i < j
          /\ registered_voters[i].email = registered_voters[j].email
          /\ registered_voters[j].domain = 1
          /\ registered_voters[j].name = 1
          /\ {i, j} \subseteq ret.flagged

\* the number of rows of flagged_df that show the voter of row idx
TimesShown(idx) ==
    Cardinality({k \in 1..Len(ret.flagged_df) :
                    ret.flagged_df[k].voter_id = registered_voters[idx].voter_id})

\* C26: after a scan of app2, every voter whose name has fewer than 2
\* words or fewer than 5 characters is flagged, and every flagged voter is
\* shown in exactly one row of flagged_df.
C26_ShortNameFlaggedOnce ==
    ret.op = "fraud_detection" =>
        \A idx \in 1..Len(registered_voters) :
            LET name == NameText(registered_voters[idx].name)
            IN  /\ (split_len(name) < 2 \/ Len(name) < 5) => idx \in ret.flagged
                /\ idx \in ret.flagged => TimesShown(idx) = 1

\* a scan that flags a voter with a one-word name of five letters, one with
\* a two-word name of four characters, and one under all three rules
C26_Witness ==
    /\ ret.op = "fraud_detection"
    /\ \E a, b, c \in ret.flagged :
          /\ registered_voters[a].name = 3
          /\ registered_voters[b].name = 4
          /\ registered_voters[c].name = 2
          /\ registered_voters[c].domain = 2
          /\ \E j \in 1..Len(registered_voters) :
                j # c /\ registered_voters[j].email = registered_voters[c].email
          /\ TimesShown(c) = 1

\* ------------------------------------------------------------------------
\* Removing the flagged registrations (app2.py)
\* ------------------------------------------------------------------------

\* the voter ids of the rows the scan flags
FlaggedIds == {registered_voters[i].voter_id : i \in fraud_flagged(registered_voters)}

C29_OneQrVotePerIdentity ==
    [][ret'.op = "qr_code_voting" =>
          /\ (ret.op = "qr_code_voting" /\ ret.ok /\ ret'.voter_id = ret.voter_id)
                 => UNCHANGED <<qr_vote_counts, votes_table>>
          /\ UNCHANGED <<chain, heap, pending_transactions, voters>>]_vars

\* C29 on app2: an image is recorded at most once in qr_voters, an image
\* that is in qr_voters changes neither qr_vote_counts nor votes_table, and
\* no QR vote changes the chain, the pending list or blockchain.voters.
QrVotesDeduplicated ==
    [][ret'.op = "qr_vote" =>
          /\ (\E content \in Candidates, photo \in Photos :
                 /\ ret'.candidate = content
                 /\ QrVoterId(content, photo) \in qr_voters)
                 => UNCHANGED <<qr_vote_counts, votes_table, qr_voters>>
          /\ UNCHANGED <<chain, heap, pending_transactions, voters>>]_vars

\* ------------------------------------------------------------------------
\* Receipts
\* ------------------------------------------------------------------------

\* C30: the receipt id of every transaction of the ledger, sealed or
\* pending, is the digest of the voter id, the candidate and the timestamp
\* that the same transaction stores.
C30_ReceiptFromStoredFields ==
    \A i \in 1..Len(LedgerOrder) :
        LET tx == LedgerOrder[i]
        IN  tx.receipt_id =
                generate_receipt_id(tx.voter_id, tx.candidate, tx.timestamp)

\* ------------------------------------------------------------------------
\* Sealing, sooner or later
\* ------------------------------------------------------------------------

Sealed(voter_id) ==
    \E i \in 1..Len(get_all_transactions) :
        get_all_transactions[i].voter_id = voter_id

\* C31: with mine run again and again, every voter id that add_transaction
\* admitted is later the voter id of a transaction of a block, which
\* get_results counts.
C31_AdmittedEventuallySealed ==
    \A voter_id \in VoterIds : (voter_id \in voters) ~> Sealed(voter_id)

\* ------------------------------------------------------------------------
\* Voters and transactions
\* ------------------------------------------------------------------------

\* C32: every voter id of blockchain.voters is the voter id of exactly one
\* transaction of the pending list and the blocks, every transaction there
\* has its voter id in blockchain.voters, and there are as many voter ids
\* as transactions.
C32_VotersMatchTransactions ==
    /\ \A v \in voters :
          Cardinality({p \in LedgerPositions : heap[p[1]][p[2]].voter_id = v}) = 1
    /\ \A p \in LedgerPositions : heap[p[1]][p[2]].voter_id \in voters
    /\ Cardinality(voters) = Len(Pending) + Len(get_all_transactions)

\* ------------------------------------------------------------------------
\* A receipt before and after the seal
\* ------------------------------------------------------------------------

\* voter_id has a transaction in the pending list
InPending(voter_id) ==
    \E i \in 1..Len(Pending) : Pending[i].voter_id = voter_id

\* 'Verify Vote' (lines 643-677) finds nothing for the receipt of the
\* pending transaction of voter_id
PendingReceiptNotFound(voter_id) ==
    \A i \in 1..Len(Pending) :
        Pending[i].voter_id = voter_id =>
            verify_result(Pending[i].receipt_id).check_result
                = "Receipt ID not found in the system"

\* 'Verify Vote' finds the receipt of a sealed transaction of voter_id in a
\* block
SealedReceiptFound(voter_id) ==
    \E i \in 1..Len(get_all_transactions) :
        /\ get_all_transactions[i].voter_id = voter_id
        /\ verify_result(get_all_transactions[i].receipt_id).check_result
               = "Blockchain Vote Verified!"

\* C33: while the transaction of a voter is pending, 'Verify Vote' asked for
\* its receipt reports that the receipt is not in the system, and with the
\* Mine button pressed again and again the receipt is later found in a
\* block.
C33_PendingReceiptFoundAfterSeal ==
    \A voter_id \in VoterIds :
        /\ [](InPending(voter_id) => PendingReceiptNotFound(voter_id))
        /\ InPending(voter_id) ~> SealedReceiptFound(voter_id)

\* ------------------------------------------------------------------------
\* votes_table and the ledger
\* ------------------------------------------------------------------------

\* the rows of votes_table that 'Submit Vote' wrote (lines 609-618)
ManualRows == {i \in 1..Len(votes_table) : votes_table[i].method = "Manual"}

\* C34: the rows of votes_table of the votes cast by hand and the
\* transactions of the pending list and the blocks match one to one: as
\* many rows as transactions carry each voter id, candidate and receipt id.
C34_VoteRowsMatchLedger ==
    LET RowKey(i) == <<votes_table[i].voter_id, votes_table[i].candidate,
                       votes_table[i].receipt>>
        TxKey(p) == <<heap[p[1]][p[2]].voter_id, heap[p[1]][p[2]].candidate,
                      heap[p[1]][p[2]].receipt_id>>
    IN  \A k \in {RowKey(i) : i \in ManualRows} \cup {TxKey(p) : p \in LedgerPositions} :
            Cardinality({i \in ManualRows : RowKey(i) = k})
                = Cardinality({p \in LedgerPositions : TxKey(p) = k})

\* ------------------------------------------------------------------------
\* app.py: whom the fraud scan shows
\* ------------------------------------------------------------------------

\* The state the scan is run in when one voter more than MaxRows may have
\* registered, so that a group of more than three votes can leave a voter
\* out: every mailbox is at acme.org or at Spam.com, every domain is
\* acme.org, and some voters have cast a vote, lowest voter id first.
VotersShown == MaxRows + 1

ShownProfiles == {<<0, 1>>, <<100, 1>>}

InitFraudShown ==
    \E n \in 0..VotersShown :
    \E profile \in [1..n -> ShownProfiles],
       vote \in [1..n -> FraudCandidates \cup {None}] :
        LET reg == [i \in 1..n |->
                       [voter_id |-> i, name |-> 1,
                        email |-> profile[i][1] + i,
                        domain |-> profile[i][2]]]
            cast == SelectSeq([i \in 1..n |-> i], LAMBDA i : vote[i] # None)
            txs == [k \in 1..Len(cast) |->
                       Transaction(cast[k], vote[cast[k]],
                                   generate_receipt_id(cast[k], vote[cast[k]], 0), 0)]
        IN  /\ registered_voters = reg
            /\ votes_table =
                   [k \in 1..Len(txs) |->
                       VoteRow(reg[txs[k].voter_id], txs[k].voter_id,
                               txs[k].candidate, txs[k].receipt_id, 0)]
            /\ heap = << txs, <<>> >>
            /\ pending_transactions = 1
            /\ voters = Range(cast)
            /\ chain = << Block(0, 2, <<>>, 0, Sentinel) >>
            /\ now = 0
            /\ candidate_list = <<1, 2>>
            /\ qr_vote_counts = [c \in {} |-> 0]
            /\ qr_voters = {}
            /\ InitThreads
            /\ ret = NoRet
            /\ hist = [tx \in Range(txs) |-> 1]

SpecFraudShown == InitFraudShown /\ [][NextFraud]_vars

\* voter_id cast a vote of a (Domain, Candidate) group of more than three
\* rows of votes_table
VotedInSuspiciousGroup(voter_id) ==
    \E idx \in 1..Len(votes_table) :
        /\ votes_table[idx].voter_id = voter_id
        /\ <<votes_table[idx].domain, votes_table[idx].candidate>>
               \in suspicious_groups(votes_table)

\* C35: every row of flagged_df is the row of a voter whose own email ends
\* with a suspicious domain or who cast a vote of a group of more than
\* three; a row number taken from votes_table shows no other voter.
C35_FlaggedForOwnRecord ==
    ret.op = "admin_panel_fraud" =>
        /\ ret.ok
        /\ \A k \in 1..Len(ret.flagged_df) :
              \/ email_is_suspicious(ret.flagged_df[k].email)
              \/ VotedInSuspiciousGroup(ret.flagged_df[k].voter_id)

\* ------------------------------------------------------------------------
\* What is looked at when a vote is admitted
\* ------------------------------------------------------------------------

\* the transactions of the pending list and the blocks
LedgerTransactions == {heap[p[1]][p[2]] : p \in LedgerPositions}

\* C36: a transaction that a request adds to the ledger names a candidate of
\* candidate_list as the list is when the request arrives, and a vote cast
\* for anything else adds no transaction, marks no voter and writes no row.
C36_AdmittedCandidateListed ==
    [][/\ \A tx \in LedgerTransactions' \ LedgerTransactions :
              tx.candidate \in Range(candidate_list)
       /\ (ret'.op = "voter_panel" /\ ret'.candidate \notin Range(candidate_list)) =>
              /\ LedgerTransactions' = LedgerTransactions
              /\ voters' = voters
              /\ votes_table' = votes_table]_vars

\* C37: a transaction that a request adds to the ledger has the voter id of
\* a voter who is in registered_voters when it is added, and a vote cast
\* under a voter id that is not registered is refused: the ledger,
\* blockchain.voters and votes_table stay as they were.
C37_AdmittedVoterRegistered ==
    [][/\ \A tx \in LedgerTransactions' \ LedgerTransactions :
              tx.voter_id \in RegisteredIds(registered_voters')
       /\ (/\ ret'.op = "voter_panel"
           /\ ret'.vote_message # ""
           /\ ret'.voter_id \notin RegisteredIds(registered_voters')) =>
              /\ ~ret'.ok
              /\ ret'.vote_message = "You must register before voting."
              /\ UNCHANGED <<ledgerVars, votes_table, hist>>]_vars

\* a vote under a voter id without a registration was refused while the
\* vote of a registered voter is in the ledger
C37_Witness ==
    /\ ret.op = "voter_panel"
    /\ ret.vote_message = "You must register before voting."
    /\ ret.voter_id \in VoterIds \ RegisteredIds(registered_voters)
    /\ LedgerTransactions # {}

\* ------------------------------------------------------------------------
\* app2.py: the registry and the duplicate-email rule
\* ------------------------------------------------------------------------

\* C38: whatever is registered and removed, Rule 1 of the scan finds no
\* email that two rows of the registry share, and flags no row.
C38_NoSharedEmailToFlag ==
    rule_duplicate_email(registered_voters) = <<>>

\* after a removal a registration under a free voter id was refused for its
\* email, which a registered voter has
C38_Witness ==
    /\ ret.op = "register_voter"
    /\ ~ret.ok
    /\ ret.voter_id \in VoterIds \ RegisteredIds(registered_voters)
    /\ Len(registered_voters) >= 1

\* ------------------------------------------------------------------------
\* app2.py: the QR counters and the QR records
\* ------------------------------------------------------------------------

\* sum(qr_vote_counts.values())
RECURSIVE SumOver(_, _)
SumOver(counts, keys) ==
    IF keys = {} THEN 0
    ELSE LET c == CHOOSE x \in keys : TRUE
         IN  counts[c] + SumOver(counts, keys \ {c})

qr_votes_total == SumOver(qr_vote_counts, DOMAIN qr_vote_counts)

\* the rows of votes_table that the QR vote wrote (lines 746-755)
QrRows == {i \in 1..Len(votes_table) : votes_table[i].method = "QR"}

\* C39: whatever candidates are added and removed and whatever QR votes are
\* cast, the counters of qr_vote_counts add up to the number of identities
\* in qr_voters and to the number of QR rows of votes_table.
C39_QrCountersMatchRecords ==
    /\ qr_votes_total = Cardinality(qr_voters)
    /\ qr_votes_total = Cardinality(QrRows)

====
